---- MODULE Spec2Model ----
(***************************************************************************)
(* Verification model of the verifiable-bfv crate (DoHoonKim8/lattices):   *)
(* the plain and in-circuit number-theoretic transforms, the ciphertext    *)
(* addition circuits with their witness generators, and the BFV scheme     *)
(* they mirror.                                                            *)
(*                                                                         *)
(* Native field elements (plonky2's GoldilocksField, order                 *)
(* P = 2^64 - 2^32 + 1) are represented by a signed integer r of small     *)
(* magnitude standing for r mod P: a non-negative r is its own canonical   *)
(* form, a negative r has the canonical form P + r.                        *)
(***************************************************************************)
EXTENDS Integers, Sequences, FiniteSets, TLC

(***************************************************************************)
(* Parameter table (src/verifiable-bfv/src/ntt_params/params_8.rs) and the *)
(* ring modulus the tests instantiate the chips with.                      *)
(***************************************************************************)
N == 8
LOGN == 3
NINV == 2913
\* Mutant of ROOTS: the entries at indices 2 and 3 change places.
ROOTS_swapped == <<1, 1729, 40, 749, 2699, 2642, 848, 1432>>
ROOTS == <<1, 1729, 749, 40, 2699, 2642, 848, 1432>>
INVROOTS == <<1, 1600, 3289, 2580, 1897, 2481, 687, 630>>
TESTG == <<35, 1850, 948, 1099, 3090, 2420, 1584, 2455>>
TESTGHAT == <<2262, 2435, 1226, 2464, 1780, 1017, 694, 1718>>
Q == 3329

\* Bounds of the model.
MaxVal == 1        \* input values are 0, 1..MaxVal and Q-MaxVal..Q-1
MaxWeight == 3     \* an input vector has at most MaxWeight non-zero entries
MaxCoeff == 1      \* ciphertext coefficients are 0, 1..MaxCoeff, Q-MaxCoeff..Q-1
                   \* and the two values around Q/2
MaxMsg == 1        \* a message's first coefficient is in 0..MaxMsg
MaxNoise == 1      \* an error drawn in the multiplication tests is -MaxNoise or MaxNoise
MaxErr == 1        \* an encryption error is 0 or within MaxErr of the budget Q/(2t)
MaxDividend == 20  \* rounded_div is called on dividends -MaxDividend..MaxDividend
MaxDivisor == 7    \* and on the non-zero divisors -MaxDivisor..MaxDivisor
MaxRows == 3       \* transpose is called on at most MaxRows rows
MaxCols == 2       \* of at most MaxCols elements each

\* Vectors are 0-indexed in the source; tuples are 1-indexed here.
At(a, j) == a[j + 1]
Put(a, j, x) == [a EXCEPT ![j + 1] = x]

RECURSIVE Pow2(_)
Pow2(k) == IF k = 0 THEN 1 ELSE 2 * Pow2(k - 1)

(***************************************************************************)
(* Goldilocks field arithmetic, reduced to what the code observes of it:   *)
(* x.to_canonical_u64() % Q.                                               *)
(***************************************************************************)
RECURSIVE Pow2ModQ(_)
Pow2ModQ(k) == IF k = 0 THEN 1 ELSE (2 * Pow2ModQ(k - 1)) % Q

\* P mod Q for P = 2^64 - 2^32 + 1.
FieldOrderModQ == (Pow2ModQ(64) - Pow2ModQ(32) + 1) % Q

\* x.to_canonical_u64() % Q for the field element represented by r, -P < r < P.
CanonicalModQ(r) == IF r >= 0 THEN r % Q ELSE (FieldOrderModQ + r) % Q

(***************************************************************************)
(* Off-circuit forward transform, vbfv::ntt_forward.                       *)
(***************************************************************************)
\* One butterfly of ntt_fw_update: the body of the inner loop.
fw_butterfly(a, j, t, s) ==
    LET u == At(a, j)
        v == CanonicalModQ(At(a, j + t) * s)
        a1 == Put(a, j, CanonicalModQ(u + v))
    IN  Put(a1, j + t, CanonicalModQ(u - v))

RECURSIVE fw_inner(_, _, _, _, _)
fw_inner(a, j, j2, t, s) ==
    IF j >= j2 THEN a ELSE fw_inner(fw_butterfly(a, j, t, s), j + 1, j2, t, s)

RECURSIVE fw_outer(_, _, _, _)
fw_outer(a, i, m, t) ==
    IF i >= m THEN a
    ELSE LET j1 == 2 * i * t
             j2 == j1 + t
             root == At(ROOTS, m + i)
         IN  fw_outer(fw_inner(a, j1, j2, t, root), i + 1, m, t)

ntt_fw_update(input, m) == fw_outer(input, 0, m, N \div (2 * m))

RECURSIVE ntt_forward_from(_, _)
ntt_forward_from(current, i) ==
    IF i >= LOGN THEN current
    ELSE ntt_forward_from(ntt_fw_update(current, Pow2(i)), i + 1)

ntt_forward(input) == ntt_forward_from(input, 0)

(***************************************************************************)
(* Modular arithmetic chip ArithmeticChip<F, D, Q> used by NTTChip and     *)
(* CiphertextChip: the value each operation puts on its result wire.       *)
(***************************************************************************)
ArithmeticChip_add(x, y) == (x + y) % Q

\* Mutant of ArithmeticChip_sub: the difference is taken in the native field
\* and reduced, without adding Q first.
ArithmeticChip_sub_wrapping(x, y) == CanonicalModQ(x - y)

\* sub forms x + Q - y, and its generator divides that by Q: the quotient
\* witness and, on the result wire, the remainder.
ArithmeticChip_sub_minuend(x, y) == x + Q - y
ArithmeticChip_sub_quotient(x, y) == ArithmeticChip_sub_minuend(x, y) \div Q
ArithmeticChip_sub(x, y) == (x + Q - y) % Q
ArithmeticChip_mul_with_constant(x, c) == (x * c) % Q

(***************************************************************************)
(* In-circuit transforms, NTTChip.                                         *)
(***************************************************************************)
\* Mutant of chip_fw_butterfly: the sum and the difference land on each other's wire.
chip_fw_butterfly_swapped(a, j, t, root) ==
    LET u == At(a, j)
        v == ArithmeticChip_mul_with_constant(At(a, j + t), root)
        a1 == Put(a, j, ArithmeticChip_sub(u, v))
    IN  Put(a1, j + t, ArithmeticChip_add(u, v))

chip_fw_butterfly(a, j, t, root) ==
    LET u == At(a, j)
        v == ArithmeticChip_mul_with_constant(At(a, j + t), root)
        a1 == Put(a, j, ArithmeticChip_add(u, v))
    IN  Put(a1, j + t, ArithmeticChip_sub(u, v))

RECURSIVE chip_fw_inner(_, _, _, _, _)
chip_fw_inner(a, j, j2, t, root) ==
    IF j >= j2 THEN a
    ELSE chip_fw_inner(chip_fw_butterfly(a, j, t, root), j + 1, j2, t, root)

RECURSIVE chip_fw_outer(_, _, _, _)
chip_fw_outer(a, i, m, t) ==
    IF i >= m THEN a
    ELSE LET j1 == 2 * i * t
             j2 == j1 + t
             root == At(ROOTS, m + i)
         IN  chip_fw_outer(chip_fw_inner(a, j1, j2, t, root), i + 1, m, t)

NTTChip_ntt_fw_update(input, m) == chip_fw_outer(input, 0, m, N \div (2 * m))

chip_bw_butterfly(a, j, t, root) ==
    LET u == At(a, j)
        v == At(a, j + t)
        a1 == Put(a, j, ArithmeticChip_add(u, v))
        w == ArithmeticChip_sub(u, v)
    IN  Put(a1, j + t, ArithmeticChip_mul_with_constant(w, root))

RECURSIVE chip_bw_inner(_, _, _, _, _)
chip_bw_inner(a, j, j2, t, root) ==
    IF j >= j2 THEN a
    ELSE chip_bw_inner(chip_bw_butterfly(a, j, t, root), j + 1, j2, t, root)

RECURSIVE chip_bw_outer(_, _, _, _, _)
chip_bw_outer(a, i, j1, m, t) ==
    IF i >= m THEN a
    ELSE LET j2 == j1 + t
             root == At(INVROOTS, m + i)
         IN  chip_bw_outer(chip_bw_inner(a, j1, j2, t, root), i + 1, j1 + 2 * t, m, t)

NTTChip_ntt_bw_update(input, m) == chip_bw_outer(input, 0, 0, m, N \div (2 * m))

\* Mutant of NTTChip_scale: the closing multiplication by NINV is left out.
NTTChip_scale_skipped(current) == current

\* The closing map of ntt_backward: every value times NINV.
NTTChip_scale(current) ==
    [k \in 1..Len(current) |-> ArithmeticChip_mul_with_constant(current[k], NINV)]

(***************************************************************************)
(* Circuit builder and witness, as far as the chips use them.  A wire      *)
(* (plonky2 Target) is a natural number; a witness is a function from the  *)
(* wires that have been set to their values.                               *)
(***************************************************************************)
\* plonky2::util::log2_ceil
log2_ceil(n) == CHOOSE k \in 0..30 : Pow2(k) >= n /\ (k = 0 \/ Pow2(k - 1) < n)

\* The width AssignedValue::new range-checks a wire to.
RangeBits == log2_ceil(Q)

\* `count` fresh wires, the first being `first`.
FreshWires(first, count) == [k \in 1..count |-> first + k - 1]

Range(f) == {f[k] : k \in DOMAIN f}

\* WitnessWrite::set_target
set_target(w, t, v) == [k \in (DOMAIN w) \cup {t} |-> IF k = t THEN v ELSE w[k]]

RECURSIVE set_targets(_, _, _)
set_targets(w, targets, values) ==
    IF targets = <<>> THEN w
    ELSE set_targets(set_target(w, Head(targets), Head(values)),
                     Tail(targets), Tail(values))

\* F::from_canonical_i64
from_canonical_i64(c) == c

\* CircuitBuilder::arithmetic: const_0 * multiplicand_0 * multiplicand_1 + const_1 * addend
\* in the native field.
cb_arithmetic(const_0, const_1, multiplicand_0, multiplicand_1, addend) ==
    const_0 * multiplicand_0 * multiplicand_1 + const_1 * addend

\* CircuitBuilder::add
cb_add(x, y) == x + y

\* CircuitBuilder::neg_one
neg_one == -1

(***************************************************************************)
(* Assigned types (assigned.rs).                                           *)
(***************************************************************************)
\* The values AssignedNTTPoly::assign writes for the coefficients poly_coeffs.
AssignedNTTPoly_assign(poly_coeffs) ==
    ntt_forward([k \in 1..Len(poly_coeffs) |-> from_canonical_i64(poly_coeffs[k])])

\* An AssignedCiphertext is held by its 2N wires; self.ciphertext is the pair
\* of AssignedNTTPoly, each with its N evals.
AssignedCiphertext_ciphertext(a) == <<SubSeq(a, 1, N), SubSeq(a, N + 1, 2 * N)>>

\* Mutant of AssignedCiphertext_register_as_public_input: c_1's evals are
\* registered before c_0's.
AssignedCiphertext_register_c1_first(registered, a) ==
    LET ciphertext == AssignedCiphertext_ciphertext(a)
    IN  (registered \o ciphertext[2]) \o ciphertext[1]

\* AssignedCiphertext::register_as_public_input: cb.register_public_input on
\* every eval of ciphertext[0], then on every eval of ciphertext[1]; the
\* builder appends each to its list of public inputs.
AssignedCiphertext_register_as_public_input(registered, a) ==
    LET ciphertext == AssignedCiphertext_ciphertext(a)
    IN  (registered \o ciphertext[1]) \o ciphertext[2]

\* AssignedCiphertext::ciphertext_targets: flat_map over self.ciphertext.
AssignedCiphertext_ciphertext_targets(a) ==
    LET ciphertext == AssignedCiphertext_ciphertext(a)
    IN  ciphertext[1] \o ciphertext[2]

\* register_as_public_input on each assigned ciphertext of `cts` in turn.
RECURSIVE register_each(_, _)
register_each(registered, cts) ==
    IF cts = <<>> THEN registered
    ELSE register_each(AssignedCiphertext_register_as_public_input(registered, Head(cts)),
                       Tail(cts))

\* AssignedCiphertext::assign: the 2N values written, c_0's then c_1's.
AssignedCiphertext_assign(ct) ==
    AssignedNTTPoly_assign(ct.c_0) \o AssignedNTTPoly_assign(ct.c_1)

\* Ciphertext + Ciphertext of the BFV scheme: component-wise sum mod Q.
PolyAddModQ(a, b) == [k \in 1..Len(a) |-> (a[k] + b[k]) % Q]
Ciphertext_add(a, b) ==
    [c_0 |-> PolyAddModQ(a.c_0, b.c_0), c_1 |-> PolyAddModQ(a.c_1, b.c_1)]

(***************************************************************************)
(* Witness generators of the two addition chips.                           *)
(***************************************************************************)
\* F::to_canonical_u64 of a value in canonical form (0 <= r < P).
to_canonical_u64(r) == r

\* tmp.div_euclid(Q) and tmp.rem_euclid(Q) for the u64 sum tmp.
ops_quotient(tmp) == tmp \div Q
ops_remainder(tmp) == tmp % Q

\* ArithmeticOpsGenerator::run_once: the (target, value) pairs pushed to
\* out_buffer, for each i the quotient's and then the result's.
RECURSIVE ArithmeticOps_run_from(_, _, _, _, _, _)
ArithmeticOps_run_from(i, w, ct0_targets, ct1_targets, quot, result_targets) ==
    IF i > Len(ct0_targets) \/ i > Len(ct1_targets) THEN <<>>
    ELSE LET ct0_eval == w[ct0_targets[i]]
             ct1_eval == w[ct1_targets[i]]
             tmp == to_canonical_u64(ct0_eval) + to_canonical_u64(ct1_eval)
         IN  << <<quot[i], ops_quotient(tmp)>>,
                <<result_targets[i], ops_remainder(tmp)>> >>
             \o ArithmeticOps_run_from(i + 1, w, ct0_targets, ct1_targets,
                                       quot, result_targets)

\* dependencies(): ct0's targets followed by ct1's.
Generator_dependencies(ct0_targets, ct1_targets) == ct0_targets \o ct1_targets

\* Mutant of split_at: the split falls one element before `mid`.
split_at_one_early(seq, mid) ==
    <<SubSeq(seq, 1, mid - 1), SubSeq(seq, mid, Len(seq))>>

\* dependencies.split_at(dependencies.len() / 2)
split_at(seq, mid) == <<SubSeq(seq, 1, mid), SubSeq(seq, mid + 1, Len(seq))>>

ArithmeticOpsGenerator_run_once(w, ct0_targets, ct1_targets, quot, result_targets) ==
    LET dependencies == Generator_dependencies(ct0_targets, ct1_targets)
        halves == split_at(dependencies, Len(dependencies) \div 2)
    IN  ArithmeticOps_run_from(1, w, halves[1], halves[2], quot, result_targets)

\* CiphertextOpsGenerator::run_once: the quotient pairs only.
RECURSIVE CiphertextOps_run_from(_, _, _, _, _)
CiphertextOps_run_from(i, w, ct0_targets, ct1_targets, quot) ==
    IF i > Len(ct0_targets) \/ i > Len(ct1_targets) THEN <<>>
    ELSE LET ct0_eval == w[ct0_targets[i]]
             ct1_eval == w[ct1_targets[i]]
             tmp == to_canonical_u64(ct0_eval) + to_canonical_u64(ct1_eval)
         IN  << <<quot[i], ops_quotient(tmp)>> >>
             \o CiphertextOps_run_from(i + 1, w, ct0_targets, ct1_targets, quot)

CiphertextOpsGenerator_run_once(w, ct0_targets, ct1_targets, quot) ==
    LET dependencies == Generator_dependencies(ct0_targets, ct1_targets)
        halves == split_at(dependencies, Len(dependencies) \div 2)
    IN  CiphertextOps_run_from(1, w, halves[1], halves[2], quot)

\* The targets run_once passes to witness.get_target: for each pair the loop
\* zips from the two halves of dependencies(), ct0_target and ct1_target.
run_once_reads(ct0_targets, ct1_targets) ==
    LET dependencies == Generator_dependencies(ct0_targets, ct1_targets)
        halves == split_at(dependencies, Len(dependencies) \div 2)
        zipped == IF Len(halves[1]) <= Len(halves[2]) THEN Len(halves[1])
                  ELSE Len(halves[2])
    IN  {halves[1][i] : i \in 1..zipped} \cup {halves[2][i] : i \in 1..zipped}

\* Mutant of add_ciphertexts_gate: the quotient term is added, not subtracted.
add_ciphertexts_gate_plus(quot_value, eval_added) ==
    cb_arithmetic(Q, 1, 1, quot_value, eval_added)

\* ArithmeticChip::add_ciphertexts: the value the gate
\* cb.arithmetic(ring_modulus, one, neg_one, quotient, eval_added) puts on the
\* result wire.
add_ciphertexts_gate(quot_value, eval_added) ==
    cb_arithmetic(Q, 1, neg_one, quot_value, eval_added)

\* The scheme's tests: ring degree of the shortest messages, and modulus q.
BfvDegree == 2
BfvQ == 65536

(***************************************************************************)
(* cyclotomic-ring utilities (utils.rs).                                   *)
(***************************************************************************)
\* Rust's integer division, which truncates toward zero.
TruncDiv(a, b) ==
    IF (a >= 0) = (b > 0) THEN (IF a >= 0 THEN a \div b ELSE (0 - a) \div (0 - b))
    ELSE 0 - ((IF a >= 0 THEN a ELSE 0 - a) \div (IF b > 0 THEN b ELSE 0 - b))

\* Mutant of rounded_div: the half-divisor adjustment is left out.
rounded_div_truncating(dividend, divisor) == TruncDiv(dividend, divisor)

\* Mutant of rounded_div: half the divisor is added whatever the signs.
rounded_div_unsigned(dividend, divisor) ==
    TruncDiv(dividend + TruncDiv(divisor, 2), divisor)

\* rounded_div: `dividend ^ divisor >= 0` holds when the two sign bits agree.
rounded_div(dividend, divisor) ==
    IF (dividend >= 0) = (divisor >= 0)
    THEN TruncDiv(dividend + TruncDiv(divisor, 2), divisor)
    ELSE TruncDiv(dividend - TruncDiv(divisor, 2), divisor)

(***************************************************************************)
(* The BFV scheme over Z_q[X]/(X^n+1) (spec section 4.3).  A polynomial is *)
(* the tuple of its n coefficients, each in [0,q) once reduced.            *)
(***************************************************************************)
\* Coefficient k (0-based) of a*b modulo X^n+1, over the integers.
RECURSIVE NegacyclicCoeff(_, _, _, _)
NegacyclicCoeff(a, b, k, i) ==
    IF i >= Len(a) THEN 0
    ELSE (IF i <= k THEN At(a, i) * At(b, k - i)
          ELSE 0 - At(a, i) * At(b, k - i + Len(a)))
         + NegacyclicCoeff(a, b, k, i + 1)

PolyMulInt(a, b) == [k \in 1..Len(a) |-> NegacyclicCoeff(a, b, k - 1, 0)]
PolyAddInt(a, b) == [k \in 1..Len(a) |-> a[k] + b[k]]
PolySubInt(a, b) == [k \in 1..Len(a) |-> a[k] - b[k]]
PolyScaleInt(c, a) == [k \in 1..Len(a) |-> c * a[k]]
PolyMod(a, q) == [k \in 1..Len(a) |-> a[k] % q]

Poly_add(a, b, q) == PolyMod(PolyAddInt(a, b), q)
Poly_sub(a, b, q) == PolyMod(PolySubInt(a, b), q)

\* SecretKey::public_key_gen: (-(a*s + e) mod q, a).
public_key_gen(s, a, e, q) ==
    [p_0 |-> PolyMod(PolyScaleInt(-1, PolyAddInt(PolyMulInt(a, s), e)), q),
     p_1 |-> PolyMod(a, q)]

\* The scaling factor delta = round(q/t).
Delta(q, t) == rounded_div(q, t)

\* Plaintext::encrypt: c_0 = p_0*u + e_0 + delta*m, c_1 = p_1*u + e_1.
Plaintext_encrypt(pk, m, u, e_0, e_1, q, t) ==
    [c_0 |-> PolyMod(PolyAddInt(PolyAddInt(PolyMulInt(pk.p_0, u), e_0),
                                PolyScaleInt(Delta(q, t), m)), q),
     c_1 |-> PolyMod(PolyAddInt(PolyMulInt(pk.p_1, u), e_1), q)]

\* Ciphertext::decrypt: c_0 + c_1*s mod q, rescaled by t/q with rounding, mod t.
Ciphertext_decrypt(ct, s, q, t) ==
    LET raw == PolyMod(PolyAddInt(ct.c_0, PolyMulInt(ct.c_1, s)), q)
    IN  [k \in 1..Len(raw) |-> rounded_div(t * raw[k], q) % t]

\* Mutant of Ciphertext_add_q: the c_1 components are not added.
Ciphertext_add_q_c0_only(x, y, q) ==
    [c_0 |-> PolyMod([k \in 1..Len(x.c_0) |-> x.c_0[k] + y.c_0[k]], q), c_1 |-> x.c_1]

\* Mutant of Ciphertext_sub_q: the c_1 components are added.
Ciphertext_sub_q_c1_added(x, y, q) ==
    [c_0 |-> PolyMod([k \in 1..Len(x.c_0) |-> x.c_0[k] - y.c_0[k]], q),
     c_1 |-> PolyMod([k \in 1..Len(x.c_1) |-> x.c_1[k] + y.c_1[k]], q)]

\* Ciphertext + Ciphertext, Ciphertext - Ciphertext: component-wise in the ring.
Ciphertext_add_q(x, y, q) ==
    [c_0 |-> Poly_add(x.c_0, y.c_0, q), c_1 |-> Poly_add(x.c_1, y.c_1, q)]
Ciphertext_sub_q(x, y, q) ==
    [c_0 |-> Poly_sub(x.c_0, y.c_0, q), c_1 |-> Poly_sub(x.c_1, y.c_1, q)]

\* Mutant of Ciphertext_neg_q: only c_0 is negated.
Ciphertext_neg_q_c0_only(x, q) ==
    [c_0 |-> PolyMod(PolyScaleInt(-1, x.c_0), q), c_1 |-> x.c_1]

\* -Ciphertext: both components negated in the ring.
Ciphertext_neg_q(x, q) ==
    [c_0 |-> PolyMod(PolyScaleInt(-1, x.c_0), q),
     c_1 |-> PolyMod(PolyScaleInt(-1, x.c_1), q)]

\* The noise an encryption adds to delta*m: e_0 + e_1*s - e*u over the integers.
EncryptionNoise(s, e, u, e_0, e_1) ==
    PolySubInt(PolyAddInt(e_0, PolyMulInt(e_1, s)), PolyMulInt(e, u))

\* Noise v on top of delta*m is below q/(2t), measured from the exact scaling
\* (q/t)*m: |v - (q/t - delta)*m| < q/(2t) in every coefficient, that is
\* 2*|t*v - (q - t*delta)*m| < q.
Abs(x) == IF x >= 0 THEN x ELSE 0 - x
NoiseInBudget(v, m, q, t) ==
    \A k \in 1..Len(v) : 2 * Abs(t * v[k] - (q - t * Delta(q, t)) * m[k]) < q

(***************************************************************************)
(* Ciphertext multiplication and relinearization (spec section 4.3), for   *)
(* q = BfvQ.  A product of two coefficients does not fit 31 bits, so an    *)
(* integer X is held as [hi, lo] with X = hi * BfvQ + lo, 0 <= lo < BfvQ.  *)
(***************************************************************************)
Wide(hi, lo) == [hi |-> hi + (lo \div BfvQ), lo |-> lo % BfvQ]

\* a * b for 0 <= a, b < BfvQ, with a split in two bytes.
WideMul(a, b) ==
    LET x1 == (a \div 256) * b
        x0 == (a % 256) * b
    IN  Wide(x1 \div 256, (x1 % 256) * 256 + x0)

RECURSIVE WideNegacyclicCoeff(_, _, _, _)
WideNegacyclicCoeff(a, b, k, i) ==
    IF i >= Len(a) THEN [hi |-> 0, lo |-> 0]
    ELSE LET rest == WideNegacyclicCoeff(a, b, k, i + 1)
             w == IF i <= k THEN WideMul(At(a, i), At(b, k - i))
                  ELSE WideMul(At(a, i), At(b, k - i + Len(a)))
         IN  IF i <= k THEN [hi |-> rest.hi + w.hi, lo |-> rest.lo + w.lo]
             ELSE [hi |-> rest.hi - w.hi, lo |-> rest.lo - w.lo]

\* a * b modulo X^n+1 over the integers, for polynomials reduced mod BfvQ.
WidePolyMul(a, b) ==
    [k \in 1..Len(a) |->
        LET x == WideNegacyclicCoeff(a, b, k - 1, 0) IN Wide(x.hi, x.lo)]
WidePolyAdd(a, b) == [k \in 1..Len(a) |-> Wide(a[k].hi + b[k].hi, a[k].lo + b[k].lo)]

\* rounded_div(t * X, BfvQ) for X = x.hi * BfvQ + x.lo: the multiple of BfvQ
\* taken out of the dividend leaves its sign as it was.
WideScale(x, t) ==
    IF x.hi >= 0 THEN t * x.hi + rounded_div(t * x.lo, BfvQ)
    ELSE t * (x.hi + 1) + rounded_div(t * x.lo - t * BfvQ, BfvQ)
WidePolyScale(d, t) == [k \in 1..Len(d) |-> WideScale(d[k], t) % BfvQ]

\* Mutant of Ciphertext_basic_mul: the cross term c_1 * c_0' is left out.
Ciphertext_basic_mul_no_cross(x, y, t) ==
    [d_0 |-> WidePolyScale(WidePolyMul(x.c_0, y.c_0), t),
     d_1 |-> WidePolyScale(WidePolyMul(x.c_0, y.c_1), t),
     d_2 |-> WidePolyScale(WidePolyMul(x.c_1, y.c_1), t)]

\* Ciphertext::basic_mul: the tensor product (c_0*c_0', c_0*c_1' + c_1*c_0',
\* c_1*c_1') over the integers, rescaled by t/q and reduced.
Ciphertext_basic_mul(x, y, t) ==
    [d_0 |-> WidePolyScale(WidePolyMul(x.c_0, y.c_0), t),
     d_1 |-> WidePolyScale(WidePolyAdd(WidePolyMul(x.c_0, y.c_1),
                                       WidePolyMul(x.c_1, y.c_0)), t),
     d_2 |-> WidePolyScale(WidePolyMul(x.c_1, y.c_1), t)]

\* The number of digits of relinearization v1: ceil(log_base(q)).
RECURSIVE NumDigits(_, _)
NumDigits(q, base) ==
    IF q <= 1 THEN 0 ELSE 1 + NumDigits((q + base - 1) \div base, base)

RECURSIVE Pow(_, _)
Pow(b, i) == IF i = 0 THEN 1 ELSE b * Pow(b, i - 1)

\* Digit i of every coefficient of d in the given base.
PolyDigit(d, base, i) == [k \in 1..Len(d) |-> (d[k] \div Pow(base, i)) % base]

\* SecretKey::relin_key_gen_1: pair i is (-(a_i*s + e_i) + base^i * s^2, a_i).
relin_key_gen_1(s, as, es, q, base) ==
    [i \in 1..NumDigits(q, base) |->
        [r_0 |-> PolyMod(PolyAddInt(PolyScaleInt(-1, PolyAddInt(PolyMulInt(as[i], s), es[i])),
                                    PolyScaleInt(Pow(base, i - 1), PolyMulInt(s, s))), q),
         r_1 |-> PolyMod(as[i], q)]]

\* The sum over the pairs from the i-th on of (component of the pair) * (digit of d_2).
RECURSIVE KeySwitchSum(_, _, _, _, _)
KeySwitchSum(d_2, rlk, base, part, i) ==
    IF i > Len(rlk) THEN [k \in 1..Len(d_2) |-> 0]
    ELSE PolyAddInt(PolyMulInt(IF part = 0 THEN rlk[i].r_0 ELSE rlk[i].r_1,
                               PolyDigit(d_2, base, i - 1)),
                    KeySwitchSum(d_2, rlk, base, part, i + 1))

\* Mutant of relinearize_1: the key-switching sum is not folded into c_1.
relinearize_1_c0_only(d, rlk, q, base) ==
    [c_0 |-> PolyMod(PolyAddInt(d.d_0, KeySwitchSum(d.d_2, rlk, base, 0, 1)), q),
     c_1 |-> d.d_1]

\* Relinearization v1 of a degree-2 ciphertext.
relinearize_1(d, rlk, q, base) ==
    [c_0 |-> PolyMod(PolyAddInt(d.d_0, KeySwitchSum(d.d_2, rlk, base, 0, 1)), q),
     c_1 |-> PolyMod(PolyAddInt(d.d_1, KeySwitchSum(d.d_2, rlk, base, 1, 1)), q)]

\* Relinearization v2 works modulo p*q.  A value modulo p*q is held as
\* [hi, lo]: hi * p + lo with 0 <= lo < p and 0 <= hi < q.
BfvP == Pow2(13) * BfvQ
ModPQ(hi, lo) == [hi |-> (hi + (lo \div BfvP)) % BfvQ, lo |-> lo % BfvP]
PolyHi(a) == [k \in 1..Len(a) |-> a[k].hi]
PolyLo(a) == [k \in 1..Len(a) |-> a[k].lo]

\* SecretKey::relin_key_gen_2: (-(a*s + e) + p * s^2 mod p*q, a).
relin_key_gen_2(s, a, e) ==
    [r_0 |-> [k \in 1..Len(s) |->
                 ModPQ(PolyMulInt(s, s)[k] - PolyMulInt(PolyHi(a), s)[k],
                       0 - PolyMulInt(PolyLo(a), s)[k] - e[k])],
     r_1 |-> a]

\* x * r for 0 <= x < q and r = [hi, lo], modulo p*q, as [hi, lo].
ScaledTerm(x, r) ==
    LET shift == BfvP \div BfvQ
        w == WideMul(x, r.lo \div shift)
        f == w.lo * shift + x * (r.lo % shift)
    IN  [hi |-> WideMul(x, r.hi).lo + w.hi + (f \div BfvP), lo |-> f % BfvP]

RECURSIVE ScaledNegacyclicCoeff(_, _, _, _)
ScaledNegacyclicCoeff(a, b, k, i) ==
    IF i >= Len(a) THEN [hi |-> 0, lo |-> 0]
    ELSE LET rest == ScaledNegacyclicCoeff(a, b, k, i + 1)
             w == IF i <= k THEN ScaledTerm(At(a, i), At(b, k - i))
                  ELSE ScaledTerm(At(a, i), At(b, k - i + Len(a)))
         IN  IF i <= k THEN [hi |-> rest.hi + w.hi, lo |-> rest.lo + w.lo]
             ELSE [hi |-> rest.hi - w.hi, lo |-> rest.lo - w.lo]

\* d_2 * r modulo p*q, divided back down by p with rounding.
ModSwitchDown(d_2, r) ==
    [k \in 1..Len(d_2) |->
        LET x == ScaledNegacyclicCoeff(d_2, r, k - 1, 0)
            y == ModPQ(x.hi, x.lo)
        IN  y.hi + rounded_div(y.lo, BfvP)]

\* Relinearization v2 of a degree-2 ciphertext.
relinearize_2(d, rlk, q) ==
    [c_0 |-> PolyMod(PolyAddInt(d.d_0, ModSwitchDown(d.d_2, rlk.r_0)), q),
     c_1 |-> PolyMod(PolyAddInt(d.d_1, ModSwitchDown(d.d_2, rlk.r_1)), q)]

\* The noise a ciphertext carries on top of delta*m: c_0 + c_1*s - delta*m
\* modulo q, taken in (-q/2, q/2].
Centered(x, q) == IF 2 * (x % q) > q THEN (x % q) - q ELSE x % q
CiphertextNoise(ct, s, m, q, t) ==
    LET raw == PolyAddInt(ct.c_0, PolyMulInt(ct.c_1, s))
    IN  [k \in 1..Len(raw) |-> Centered(raw[k] - Delta(q, t) * m[k], q)]

(***************************************************************************)
(* Ciphertexts handed to the addition tests.                               *)
(***************************************************************************)
Half == Q \div 2
CoeffVals == (0..MaxCoeff) \cup {Half, Half + 1} \cup ((Q - MaxCoeff)..(Q - 1))
Mono(c, k) == [j \in 1..N |-> IF j = k + 1 THEN c ELSE 0]
CtPolys == {Mono(c, k) : c \in CoeffVals, k \in {0, N \div 2}}

(***************************************************************************)
(* Input vectors of the transform runs.                                    *)
(***************************************************************************)
InputVals == (0..MaxVal) \cup ((Q - MaxVal)..(Q - 1))
Weight(a) == Cardinality({k \in 1..Len(a) : a[k] # 0})
Inputs ==
    {a \in [1..N -> InputVals] : Weight(a) <= MaxWeight} \cup {TESTG, TESTGHAT}

VARIABLES
    input,      \* the vector handed to both forward transforms
    plain,      \* ntt_forward: `current`
    plain_i,    \* ntt_forward: passes done
    chip,       \* NTTChip: values on the wires of `current`
    chip_pc,    \* NTTChip run: "fw", "bw", "scale", "done"
    chip_i,     \* NTTChip: passes done in the running transform
    chip_hat,   \* the values NTTChip::ntt_forward returned
    plain_trace,  \* ntt_forward: the butterflies executed so far
    chip_trace    \* NTTChip: the butterflies executed in the running transform

nttVars == <<input, plain, plain_i, chip, chip_pc, chip_i, chip_hat, plain_trace,
             chip_trace>>

VARIABLES
    ct1, ct2,        \* the ciphertexts of the addition test: [c_0, c_1]
    pc,              \* position in the addition test
    num_targets,     \* CircuitBuilder: wires allocated so far
    range_checked,   \* CircuitBuilder: wires range-checked to RangeBits bits
    a_ct1, a_ct2,    \* AssignedCiphertext: the 2N wires, c_0's evals then c_1's
    a_sum,           \* the AssignedCiphertext add_ciphertexts returned
    quotient,        \* the generator's `quotient` wires
    added,           \* ArithmeticChip: the wires of eval_added
    generators,      \* CircuitBuilder: generators registered
    public_inputs,   \* CircuitBuilder: wires registered as public inputs
    witness,         \* PartialWitness, then the witness of the proof
    out_buffer,      \* GeneratedValues of the batched generator's run
    gen_ran,         \* the batched generator has run
    gen_reads,       \* the wires its run_once read with get_target
    gates_ran,       \* the addition gates' generators have run
    proof_public     \* proof.public_inputs

circVars == <<ct1, ct2, pc, num_targets, range_checked, a_ct1, a_ct2, a_sum,
              quotient, added, generators, public_inputs, witness, out_buffer,
              gen_ran, gen_reads, gates_ran, proof_public>>

VARIABLES
    bfv_pc,          \* position in the scheme's test helper
    bfv_q, bfv_t,    \* ciphertext modulus and plaintext modulus
    secret_key,      \* SecretKey: the ternary polynomial s
    public_key,      \* PublicKey: [p_0, p_1]
    key_error,       \* the error e drawn by public_key_gen
    plaintext_1, plaintext_2,     \* the messages, as given to Plaintext::new
    ciphertext_1, ciphertext_2,   \* their encryptions: [c_0, c_1]
    noise_1, noise_2,             \* the noise of each encryption
    decrypted_1,     \* ciphertext_1.decrypt
    bfv_op,          \* the homomorphic operation applied: "add", "sub", "neg", "neg_neg"
    ciphertext_out,  \* its result
    decrypted_out    \* ciphertext_out.decrypt

bfvVars == <<bfv_pc, bfv_q, bfv_t, secret_key, public_key, key_error,
             plaintext_1, plaintext_2, ciphertext_1, ciphertext_2, noise_1,
             noise_2, decrypted_1, bfv_op, ciphertext_out, decrypted_out>>


\* The circuit tests run no encryption of their own here.
BfvIdle ==
    /\ bfv_pc = "idle"
    /\ bfv_q = 0
    /\ bfv_t = 0
    /\ secret_key = <<>>
    /\ public_key = <<>>
    /\ key_error = <<>>
    /\ plaintext_1 = <<>>
    /\ plaintext_2 = <<>>
    /\ ciphertext_1 = <<>>
    /\ ciphertext_2 = <<>>
    /\ noise_1 = <<>>
    /\ noise_2 = <<>>
    /\ decrypted_1 = <<>>
    /\ bfv_op = "none"
    /\ ciphertext_out = <<>>
    /\ decrypted_out = <<>>

VARIABLES
    rlk_1,           \* RelinearizationKey1: the pairs [r_0, r_1], one per digit
    rlk_base,        \* its digit base
    rlk_2,           \* RelinearizationKey2: [r_0, r_1] modulo p*q
    plaintext_3, plaintext_4,     \* the further messages of the end-to-end test
    ciphertext_3, ciphertext_4,   \* their encryptions
    noise_3, noise_4,             \* the noise of each encryption
    mul_ct_1, mul_ct_2,           \* relinearized products
    decrypted_mul_1, decrypted_mul_2   \* their decryptions

mulVars == <<rlk_1, rlk_base, rlk_2, plaintext_3, plaintext_4, ciphertext_3,
             ciphertext_4, noise_3, noise_4, mul_ct_1, mul_ct_2,
             decrypted_mul_1, decrypted_mul_2>>

VARIABLES
    prover_pc,       \* position in the run of a prover on the one-addition circuit
    checked,         \* the wires of that circuit under a range check
    prover_witness   \* the prover's value on each of its wires

soundVars == <<prover_pc, checked, prover_witness>>

VARIABLES
    poly_coeffs,     \* the coefficient vector handed to an `assign`
    assign_pc,       \* "start", then the `assign` that ran
    assign_pw,       \* PartialWitness: what the call wrote
    assign_result    \* "ok" when the call returned Ok(()), "panic" when it panicked

assignVars == <<poly_coeffs, assign_pc, assign_pw, assign_result>>

VARIABLES
    dividend, divisor,   \* the arguments of rounded_div
    div_result           \* <<>>, then its result as a one-element tuple

divVars == <<dividend, divisor, div_result>>

VARIABLES
    ring_modulus,    \* the const generic Q the transform chip is instantiated with
    g,               \* the vector assigned to its input wires
    g_current,       \* NTTChip::ntt_forward: values on the wires of `current`
    g_i              \* passes done

paramVars == <<ring_modulus, g, g_current, g_i>>

VARIABLES
    sub_x, sub_y,    \* the operands of one ArithmeticChip::sub
    sub_pc,          \* "start", "done"
    sub_minuend,     \* x + Q - y as the gadget forms it
    sub_quotient,    \* the quotient witness
    sub_result       \* the value on the result wire

subVars == <<sub_x, sub_y, sub_pc, sub_minuend, sub_quotient, sub_result>>

VARIABLES
    key_modulus,     \* the modulus Q of an AssignedRelinearizationKey
    key_base,        \* its digit base
    num_limbs,       \* the (rlk0, rlk1) slots it allocated
    rlk_val_len,     \* the pairs of the RelinearizationKey1 assigned to it
    rlk_pc,          \* "idle", "start", "allocated", "done"
    rlk_result       \* "none", "ok", "panic"

rlkVars == <<key_modulus, key_base, num_limbs, rlk_val_len, rlk_pc, rlk_result>>

VARIABLES
    matrix,            \* the rows `self` of a call of transpose
    transposed,        \* self.transpose()
    transposed_twice,  \* self.transpose().transpose()
    transpose_pc       \* "idle", "start", "once", "twice"

trVars == <<matrix, transposed, transposed_twice, transpose_pc>>

lateVars == <<rlkVars, trVars>>

restVars == <<soundVars, assignVars, divVars, paramVars, subVars, lateVars>>

\* The variables of every run but those of lateVars.
earlyVars == <<nttVars, circVars, bfvVars, mulVars, soundVars, assignVars, divVars,
               paramVars, subVars>>

vars == <<nttVars, circVars, bfvVars, mulVars, restVars>>

SoundIdle == prover_pc = "idle" /\ checked = {} /\ prover_witness = <<>>
AssignIdle ==
    /\ poly_coeffs = <<>>
    /\ assign_pc = "idle"
    /\ assign_pw = <<>>
    /\ assign_result = "none"
DivIdle == dividend = 0 /\ divisor = 0 /\ div_result = <<>>
ParamIdle == ring_modulus = 0 /\ g = <<>> /\ g_current = <<>> /\ g_i = 0
SubIdle ==
    /\ sub_x = 0
    /\ sub_y = 0
    /\ sub_pc = "idle"
    /\ sub_minuend = 0
    /\ sub_quotient = 0
    /\ sub_result = 0

RlkIdle ==
    /\ key_modulus = 0
    /\ key_base = 0
    /\ num_limbs = 0
    /\ rlk_val_len = 0
    /\ rlk_pc = "idle"
    /\ rlk_result = "none"

TrIdle ==
    /\ matrix = <<>>
    /\ transposed = <<>>
    /\ transposed_twice = <<>>
    /\ transpose_pc = "idle"

LateIdle == RlkIdle /\ TrIdle

\* None of the single-gadget runs is under way.
RestIdle == SoundIdle /\ AssignIdle /\ DivIdle /\ ParamIdle /\ SubIdle /\ LateIdle

\* What an encryption or a product leaves alone of the first group.
bfvMost == <<bfv_q, bfv_t, secret_key, public_key, key_error, decrypted_1, bfv_op,
             ciphertext_out, decrypted_out>>

\* No relinearization key, no product.
MulIdle ==
    /\ rlk_1 = <<>>
    /\ rlk_base = 0
    /\ rlk_2 = <<>>
    /\ plaintext_3 = <<>>
    /\ plaintext_4 = <<>>
    /\ ciphertext_3 = <<>>
    /\ ciphertext_4 = <<>>
    /\ noise_3 = <<>>
    /\ noise_4 = <<>>
    /\ mul_ct_1 = <<>>
    /\ mul_ct_2 = <<>>
    /\ decrypted_mul_1 = <<>>
    /\ decrypted_mul_2 = <<>>

\* The transform runs build no circuit of their own here.
CircIdle ==
    /\ ct1 = [c_0 |-> <<>>, c_1 |-> <<>>]
    /\ ct2 = [c_0 |-> <<>>, c_1 |-> <<>>]
    /\ pc = "idle"
    /\ num_targets = 0
    /\ range_checked = {}
    /\ a_ct1 = <<>>
    /\ a_ct2 = <<>>
    /\ a_sum = <<>>
    /\ quotient = <<>>
    /\ added = <<>>
    /\ generators = <<>>
    /\ public_inputs = <<>>
    /\ witness = <<>>
    /\ out_buffer = <<>>
    /\ gen_ran = FALSE
    /\ gen_reads = {}
    /\ gates_ran = FALSE
    /\ proof_public = <<>>

\* The addition tests run no transform chip.
NttIdle ==
    /\ input = <<>>
    /\ plain = <<>>
    /\ plain_i = 0
    /\ chip = <<>>
    /\ chip_pc = "idle"
    /\ chip_i = 0
    /\ chip_hat = <<>>
    /\ plain_trace = <<>>
    /\ chip_trace = <<>>

NttInit ==
    /\ input \in Inputs
    /\ plain = input
    /\ plain_i = 0
    /\ chip = input
    /\ chip_pc = "fw"
    /\ chip_i = 0
    /\ chip_hat = <<>>
    /\ plain_trace = <<>>
    /\ chip_trace = <<>>
    /\ CircIdle
    /\ BfvIdle
    /\ MulIdle
    /\ RestIdle

(***************************************************************************)
(* The indices the loops of the butterfly passes generate.                 *)
(***************************************************************************)
\* The inner loop `for j in j1..j2` of group i of pass m: one record per
\* butterfly, with the indices a[j] and a[j + t] it accesses and the index
\* m + i of the root it multiplies by.
RECURSIVE butterflies_from(_, _, _, _, _)
butterflies_from(j, j2, t, m, i) ==
    IF j >= j2 THEN <<>>
    ELSE <<[m |-> m, i |-> i, root |-> m + i, lo |-> j, hi |-> j + t]>>
             \o butterflies_from(j + 1, j2, t, m, i)

\* The outer loop of ntt_fw_update, of vbfv and of NTTChip alike: j1 = 2*i*t.
RECURSIVE fw_groups_from(_, _, _)
fw_groups_from(i, m, t) ==
    IF i >= m THEN <<>>
    ELSE LET j1 == 2 * i * t
             j2 == j1 + t
         IN  butterflies_from(j1, j2, t, m, i) \o fw_groups_from(i + 1, m, t)

ntt_fw_update_butterflies(m) == fw_groups_from(0, m, N \div (2 * m))

\* The outer loop of ntt_bw_update: j1 starts at 0 and grows by 2*t per group.
RECURSIVE bw_groups_from(_, _, _, _, _)
bw_groups_from(i, j1, m, t, step) ==
    IF i >= m THEN <<>>
    ELSE butterflies_from(j1, j1 + t, t, m, i)
             \o bw_groups_from(i + 1, j1 + step, m, t, step)

\* Mutant of ntt_bw_update_butterflies: j1 grows by t, not 2*t, per group.
ntt_bw_update_butterflies_step_t(m) ==
    bw_groups_from(0, 0, m, N \div (2 * m), N \div (2 * m))

ntt_bw_update_butterflies(m) ==
    bw_groups_from(0, 0, m, N \div (2 * m), 2 * (N \div (2 * m)))

\* One iteration of the loop of vbfv::ntt_forward.
PlainFwUpdate ==
    /\ plain_i < LOGN
    /\ plain' = ntt_fw_update(plain, Pow2(plain_i))
    /\ plain_i' = plain_i + 1
    /\ plain_trace' = plain_trace \o ntt_fw_update_butterflies(Pow2(plain_i))
    /\ UNCHANGED <<input, chip, chip_pc, chip_i, chip_hat, chip_trace, circVars, bfvVars, mulVars, restVars>>

\* One iteration of the loop of NTTChip::ntt_forward.
ChipFwUpdate ==
    /\ chip_pc = "fw"
    /\ chip_i < LOGN
    /\ chip' = NTTChip_ntt_fw_update(chip, Pow2(chip_i))
    /\ chip_i' = chip_i + 1
    /\ chip_trace' = chip_trace \o ntt_fw_update_butterflies(Pow2(chip_i))
    /\ UNCHANGED <<input, plain, plain_i, chip_pc, chip_hat, plain_trace, circVars, bfvVars, mulVars, restVars>>

\* NTTChip::ntt_forward returns; its output is handed to ntt_backward.
ChipFwReturn ==
    /\ chip_pc = "fw"
    /\ chip_i = LOGN
    /\ chip_hat' = chip
    /\ chip_pc' = "bw"
    /\ chip_i' = 0
    /\ chip_trace' = <<>>
    /\ UNCHANGED <<input, plain, plain_i, chip, plain_trace, circVars, bfvVars, mulVars, restVars>>

\* One iteration of the loop of NTTChip::ntt_backward: m = 2^(LOGN-1-i).
ChipBwUpdate ==
    /\ chip_pc = "bw"
    /\ chip_i < LOGN
    /\ chip' = NTTChip_ntt_bw_update(chip, Pow2(LOGN - 1 - chip_i))
    /\ chip_i' = chip_i + 1
    /\ chip_trace' = chip_trace \o ntt_bw_update_butterflies(Pow2(LOGN - 1 - chip_i))
    /\ UNCHANGED <<input, plain, plain_i, chip_pc, chip_hat, plain_trace, circVars, bfvVars, mulVars, restVars>>

\* The closing multiplication by NINV of NTTChip::ntt_backward.
ChipBwScale ==
    /\ chip_pc = "bw"
    /\ chip_i = LOGN
    /\ chip' = NTTChip_scale(chip)
    /\ chip_pc' = "done"
    /\ UNCHANGED <<input, plain, plain_i, chip_i, chip_hat, plain_trace, chip_trace,
                   circVars, bfvVars, mulVars, restVars>>

NttNext ==
    \/ PlainFwUpdate
    \/ ChipFwUpdate
    \/ ChipFwReturn
    \/ ChipBwUpdate
    \/ ChipBwScale

SpecNTT == NttInit /\ [][NttNext]_vars

(***************************************************************************)
(* The addition tests: CiphertextChip (ciphertext_chip.rs) under SpecCt,   *)
(* the batched ArithmeticChip (arithmetic_chip.rs) under SpecArith.        *)
(***************************************************************************)
Ciphertexts == {[c_0 |-> p0, c_1 |-> p1] : p0 \in CtPolys, p1 \in CtPolys}

AddInit ==
    /\ ct1 \in Ciphertexts
    /\ ct2 \in Ciphertexts
    /\ pc = "new_ct1"
    /\ num_targets = 0
    /\ range_checked = {}
    /\ a_ct1 = <<>>
    /\ a_ct2 = <<>>
    /\ a_sum = <<>>
    /\ quotient = <<>>
    /\ added = <<>>
    /\ generators = <<>>
    /\ public_inputs = <<>>
    /\ witness = <<>>
    /\ out_buffer = <<>>
    /\ gen_ran = FALSE
    /\ gen_reads = {}
    /\ gates_ran = FALSE
    /\ proof_public = <<>>
    /\ NttIdle
    /\ BfvIdle
    /\ MulIdle
    /\ RestIdle

\* AssignedCiphertext::new for the first operand: 2N times AssignedValue::new,
\* each a fresh wire with its range check.
NewCt1 ==
    /\ pc = "new_ct1"
    /\ a_ct1' = FreshWires(num_targets, 2 * N)
    /\ num_targets' = num_targets + 2 * N
    /\ range_checked' = range_checked \cup Range(a_ct1')
    /\ pc' = "new_ct2"
    /\ UNCHANGED <<ct1, ct2, a_ct2, a_sum, quotient, added, generators,
                   public_inputs, witness, out_buffer, gen_ran, gen_reads, gates_ran,
                   proof_public, nttVars, bfvVars, mulVars, restVars>>

\* AssignedCiphertext::new for the second operand.
NewCt2 ==
    /\ pc = "new_ct2"
    /\ a_ct2' = FreshWires(num_targets, 2 * N)
    /\ num_targets' = num_targets + 2 * N
    /\ range_checked' = range_checked \cup Range(a_ct2')
    /\ pc' = "add"
    /\ UNCHANGED <<ct1, ct2, a_ct1, a_sum, quotient, added, generators,
                   public_inputs, witness, out_buffer, gen_ran, gen_reads, gates_ran,
                   proof_public, nttVars, bfvVars, mulVars, restVars>>

\* AssignedCiphertext::assign(pw, ct) on the wires `targets`.
AssignStep(from, to, targets, ct) ==
    /\ pc = from
    /\ witness' = set_targets(witness, targets, AssignedCiphertext_assign(ct))
    /\ pc' = to
    /\ UNCHANGED <<ct1, ct2, num_targets, range_checked, a_ct1, a_ct2, a_sum,
                   quotient, added, generators, public_inputs, out_buffer,
                   gen_ran, gen_reads, gates_ran, proof_public, nttVars, bfvVars, mulVars, restVars>>

\* AssignedCiphertext::register_as_public_input on each of `cts` in turn.
RegisterStep(to, cts) ==
    /\ pc = "register"
    /\ public_inputs' = register_each(public_inputs, cts)
    /\ pc' = to
    /\ UNCHANGED <<ct1, ct2, num_targets, range_checked, a_ct1, a_ct2, a_sum,
                   quotient, added, generators, witness, out_buffer, gen_ran, gen_reads,
                   gates_ran, proof_public, nttVars, bfvVars, mulVars, restVars>>

\* The wires each generator reads when it runs.
\* Mutant of CiphertextOpsGenerator_reads: run_once also reads back the
\* quotient wires it is about to write.
CiphertextOpsGenerator_reads_quotient(ct0_targets, ct1_targets) ==
    run_once_reads(ct0_targets, ct1_targets) \cup Range(quotient)

CiphertextOpsGenerator_reads(ct0_targets, ct1_targets) ==
    run_once_reads(ct0_targets, ct1_targets)
ArithmeticOpsGenerator_reads(ct0_targets, ct1_targets) ==
    run_once_reads(ct0_targets, ct1_targets)

(***************************************************************************)
(* tests::test_add_ciphertexts of ciphertext_chip.rs.                      *)
(***************************************************************************)
\* CiphertextChip::add_ciphertexts: 2N quotient wires, the batched generator,
\* and one arithmetic_chip.add per pair of values, whose results make up the
\* returned ciphertext.
CtAddCiphertexts ==
    /\ pc = "add"
    /\ quotient' = FreshWires(num_targets, 2 * N)
    /\ generators' = Append(generators, "CiphertextOpsGenerator")
    /\ a_sum' = FreshWires(num_targets + 2 * N, 2 * N)
    /\ num_targets' = num_targets + 4 * N
    /\ range_checked' = range_checked \cup Range(quotient') \cup Range(a_sum')
    /\ pc' = "register"
    /\ UNCHANGED <<ct1, ct2, a_ct1, a_ct2, added, public_inputs, witness,
                   out_buffer, gen_ran, gen_reads, gates_ran, proof_public, nttVars, bfvVars, mulVars, restVars>>

CtRegister == RegisterStep("assign_ct1", <<a_sum>>)
CtAssign1 == AssignStep("assign_ct1", "assign_ct2", a_ct1, ct1)
CtAssign2 == AssignStep("assign_ct2", "prove", a_ct2, ct2)

\* Witness generation: the batched generator runs once its dependencies are set.
CtRunGenerator ==
    /\ pc = "prove"
    /\ ~gen_ran
    /\ Range(Generator_dependencies(a_ct1, a_ct2)) \subseteq DOMAIN witness
    /\ out_buffer' = CiphertextOpsGenerator_run_once(witness, a_ct1, a_ct2, quotient)
    /\ gen_reads' = CiphertextOpsGenerator_reads(a_ct1, a_ct2)
    /\ witness' = set_targets(witness,
                              [k \in 1..Len(out_buffer') |-> out_buffer'[k][1]],
                              [k \in 1..Len(out_buffer') |-> out_buffer'[k][2]])
    /\ gen_ran' = TRUE
    /\ UNCHANGED <<ct1, ct2, pc, num_targets, range_checked, a_ct1, a_ct2, a_sum,
                   quotient, added, generators, public_inputs, gates_ran,
                   proof_public, nttVars, bfvVars, mulVars, restVars>>

\* Witness generation: the generators of the 2N arithmetic_chip.add gates.  Each
\* reads its two operand wires and writes its own result wire, so their order
\* among themselves does not show.
CtRunGates ==
    /\ pc = "prove"
    /\ ~gates_ran
    /\ Range(a_ct1) \cup Range(a_ct2) \subseteq DOMAIN witness
    /\ witness' = set_targets(witness, a_sum,
                     [k \in 1..(2 * N) |->
                         ArithmeticChip_add(witness[a_ct1[k]], witness[a_ct2[k]])])
    /\ gates_ran' = TRUE
    /\ UNCHANGED <<ct1, ct2, pc, num_targets, range_checked, a_ct1, a_ct2, a_sum,
                   quotient, added, generators, public_inputs, out_buffer,
                   gen_ran, gen_reads, proof_public, nttVars, bfvVars, mulVars, restVars>>

\* data.prove(pw) returns: the proof carries the public inputs' values.
CtProved ==
    /\ pc = "prove"
    /\ gen_ran
    /\ gates_ran
    /\ proof_public' = [k \in 1..Len(public_inputs) |-> witness[public_inputs[k]]]
    /\ pc' = "proved"
    /\ UNCHANGED <<ct1, ct2, num_targets, range_checked, a_ct1, a_ct2, a_sum,
                   quotient, added, generators, public_inputs, witness,
                   out_buffer, gen_ran, gen_reads, gates_ran, nttVars, bfvVars, mulVars, restVars>>

CtNext ==
    \/ NewCt1
    \/ NewCt2
    \/ CtAddCiphertexts
    \/ CtRegister
    \/ CtAssign1
    \/ CtAssign2
    \/ CtRunGenerator
    \/ CtRunGates
    \/ CtProved

SpecCt == AddInit /\ [][CtNext]_vars

(***************************************************************************)
(* tests::test_add_ciphertexts_helper of arithmetic_chip.rs.               *)
(***************************************************************************)
\* ArithmeticChip::add_ciphertexts: vec![AssignedValue::new(cb); 2 * N] is 2N
\* copies of one AssignedValue, that is one quotient wire; per pair of operand
\* wires a wire for eval_added and one for the gate's result; the result wires
\* are range-checked by new_from_targets; one generator is registered.
ArithAddCiphertexts ==
    /\ pc = "add"
    /\ quotient' = [k \in 1..(2 * N) |-> num_targets]
    /\ added' = [k \in 1..(2 * N) |-> num_targets + 1 + 2 * (k - 1)]
    /\ a_sum' = [k \in 1..(2 * N) |-> num_targets + 2 + 2 * (k - 1)]
    /\ num_targets' = num_targets + 1 + 4 * N
    /\ range_checked' = range_checked \cup {num_targets} \cup Range(a_sum')
    /\ generators' = Append(generators, "ArithmeticOpsGenerator")
    /\ pc' = "register"
    /\ UNCHANGED <<ct1, ct2, a_ct1, a_ct2, public_inputs, witness, out_buffer,
                   gen_ran, gen_reads, gates_ran, proof_public, nttVars, bfvVars, mulVars, restVars>>

ArithRegister == RegisterStep("assign_ct1", <<a_ct1, a_ct2, a_sum>>)
ArithAssign1 == AssignStep("assign_ct1", "assign_ct2", a_ct1, ct1)
ArithAssign2 == AssignStep("assign_ct2", "assign_added", a_ct2, ct2)
ArithAssignAdded ==
    AssignStep("assign_added", "prove", a_sum, Ciphertext_add(ct1, ct2))

\* Witness generation: ArithmeticOpsGenerator::run_once fills out_buffer.
ArithRunGenerator ==
    /\ pc = "prove"
    /\ ~gen_ran
    /\ Range(Generator_dependencies(a_ct1, a_ct2)) \subseteq DOMAIN witness
    /\ out_buffer' =
           ArithmeticOpsGenerator_run_once(witness, a_ct1, a_ct2, quotient, a_sum)
    /\ gen_reads' = ArithmeticOpsGenerator_reads(a_ct1, a_ct2)
    /\ gen_ran' = TRUE
    /\ UNCHANGED <<ct1, ct2, pc, num_targets, range_checked, a_ct1, a_ct2, a_sum,
                   quotient, added, generators, public_inputs, witness,
                   gates_ran, proof_public, nttVars, bfvVars, mulVars, restVars>>

ArithNext ==
    \/ NewCt1
    \/ NewCt2
    \/ ArithAddCiphertexts
    \/ ArithRegister
    \/ ArithAssign1
    \/ ArithAssign2
    \/ ArithAssignAdded
    \/ ArithRunGenerator

SpecArith == AddInit /\ [][ArithNext]_vars

(***************************************************************************)
(* The scheme's tests (bfv/tests.rs): key generation, two encryptions, one *)
(* homomorphic operation, decryption.  The samplers' draws are the         *)
(* nondeterministic choices.                                               *)
(***************************************************************************)
BfvParams == {[q |-> BfvQ, t |-> 16], [q |-> BfvQ, t |-> 32], [q |-> Q, t |-> 4]}

SecretKeys == {<<1, -1>>, <<0, 1>>, <<-1, 0>>}
UniformPolys(q) == {<<1, q - 1>>, <<q \div 2, 3>>}
KeyErrors == {<<0, 0>>, <<1, -1>>}
\* The pairs (u, e_1) an encryption draws.
EncryptDraws == {[u |-> <<1, -1>>, e_1 |-> <<0, 0>>], [u |-> <<0, 1>>, e_1 |-> <<-1, 1>>]}
\* The budget q/(2t), and the values of e_0 around it.
Budget(q, t) == q \div (2 * t)
E0Vals(q, t) ==
    {0} \cup {Budget(q, t) - d : d \in 0..MaxErr} \cup {d - Budget(q, t) : d \in 0..MaxErr}
E0Polys(q, t) == {<<x, 0 - x>> : x \in E0Vals(q, t)}
\* Messages: coefficients below t and one, t + 1, that Plaintext reduces.
Messages(t) == {<<x, y>> : x \in 0..MaxMsg, y \in {t - 1, t + 1}}

\* Nothing generated, encrypted or decrypted yet.
BfvFresh ==
    /\ bfv_pc = "keygen"
    /\ secret_key = <<>>
    /\ public_key = <<>>
    /\ key_error = <<>>
    /\ plaintext_1 = <<>>
    /\ plaintext_2 = <<>>
    /\ ciphertext_1 = <<>>
    /\ ciphertext_2 = <<>>
    /\ noise_1 = <<>>
    /\ noise_2 = <<>>
    /\ decrypted_1 = <<>>
    /\ bfv_op = "none"
    /\ ciphertext_out = <<>>
    /\ decrypted_out = <<>>

BfvInit ==
    /\ \E par \in BfvParams : bfv_q = par.q /\ bfv_t = par.t
    /\ BfvFresh
    /\ MulIdle
    /\ NttIdle
    /\ CircIdle
    /\ RestIdle

\* SecretKey::generate, then SecretKey::public_key_gen.
KeyGen ==
    /\ bfv_pc = "keygen"
    /\ \E s \in SecretKeys, a \in UniformPolys(bfv_q), e \in KeyErrors :
          /\ secret_key' = s
          /\ key_error' = e
          /\ public_key' = public_key_gen(s, a, e, bfv_q)
    /\ bfv_pc' = "encrypt_1"
    /\ UNCHANGED <<bfv_q, bfv_t, plaintext_1, plaintext_2, ciphertext_1,
                   ciphertext_2, noise_1, noise_2, decrypted_1, bfv_op,
                   ciphertext_out, decrypted_out, nttVars, circVars, mulVars, restVars>>

\* Plaintext::new(msg_1, t).encrypt(&public_key, ..).
Encrypt1 ==
    /\ bfv_pc = "encrypt_1"
    /\ \E m \in Messages(bfv_t), r \in EncryptDraws, e_0 \in E0Polys(bfv_q, bfv_t) :
          /\ plaintext_1' = m
          /\ ciphertext_1' = Plaintext_encrypt(public_key, m, r.u, e_0, r.e_1, bfv_q, bfv_t)
          /\ noise_1' = EncryptionNoise(secret_key, key_error, r.u, e_0, r.e_1)
    /\ bfv_pc' = "decrypt_1"
    /\ UNCHANGED <<bfv_q, bfv_t, secret_key, public_key, key_error, plaintext_2,
                   ciphertext_2, noise_2, decrypted_1, bfv_op, ciphertext_out,
                   decrypted_out, nttVars, circVars, mulVars, restVars>>

\* ciphertext_1.decrypt(&secret_key).
Decrypt1 ==
    /\ bfv_pc = "decrypt_1"
    /\ decrypted_1' = Ciphertext_decrypt(ciphertext_1, secret_key, bfv_q, bfv_t)
    /\ bfv_pc' = "encrypt_2"
    /\ UNCHANGED <<bfv_q, bfv_t, secret_key, public_key, key_error, plaintext_1,
                   plaintext_2, ciphertext_1, ciphertext_2, noise_1, noise_2,
                   bfv_op, ciphertext_out, decrypted_out, nttVars, circVars, mulVars, restVars>>

\* Plaintext::new(msg_2, t).encrypt(&public_key, ..).
Encrypt2 ==
    /\ bfv_pc = "encrypt_2"
    /\ \E m \in Messages(bfv_t), r \in EncryptDraws, e_0 \in E0Polys(bfv_q, bfv_t) :
          /\ plaintext_2' = m
          /\ ciphertext_2' = Plaintext_encrypt(public_key, m, r.u, e_0, r.e_1, bfv_q, bfv_t)
          /\ noise_2' = EncryptionNoise(secret_key, key_error, r.u, e_0, r.e_1)
    /\ bfv_pc' = "op"
    /\ UNCHANGED <<bfv_q, bfv_t, secret_key, public_key, key_error, plaintext_1,
                   ciphertext_1, noise_1, decrypted_1, bfv_op, ciphertext_out,
                   decrypted_out, nttVars, circVars, mulVars, restVars>>

\* ciphertext_1 + ciphertext_2.
BfvAdd ==
    /\ bfv_pc = "op"
    /\ ciphertext_out' = Ciphertext_add_q(ciphertext_1, ciphertext_2, bfv_q)
    /\ bfv_op' = "add"
    /\ bfv_pc' = "decrypt_out"
    /\ UNCHANGED <<bfv_q, bfv_t, secret_key, public_key, key_error, plaintext_1,
                   plaintext_2, ciphertext_1, ciphertext_2, noise_1, noise_2,
                   decrypted_1, decrypted_out, nttVars, circVars, mulVars, restVars>>

\* ciphertext_1 - ciphertext_2.
BfvSub ==
    /\ bfv_pc = "op"
    /\ ciphertext_out' = Ciphertext_sub_q(ciphertext_1, ciphertext_2, bfv_q)
    /\ bfv_op' = "sub"
    /\ bfv_pc' = "decrypt_out"
    /\ UNCHANGED <<bfv_q, bfv_t, secret_key, public_key, key_error, plaintext_1,
                   plaintext_2, ciphertext_1, ciphertext_2, noise_1, noise_2,
                   decrypted_1, decrypted_out, nttVars, circVars, mulVars, restVars>>

\* -ciphertext_1.
BfvNeg ==
    /\ bfv_pc = "op"
    /\ ciphertext_out' = Ciphertext_neg_q(ciphertext_1, bfv_q)
    /\ bfv_op' = "neg"
    /\ bfv_pc' = "decrypt_out"
    /\ UNCHANGED <<bfv_q, bfv_t, secret_key, public_key, key_error, plaintext_1,
                   plaintext_2, ciphertext_1, ciphertext_2, noise_1, noise_2,
                   decrypted_1, decrypted_out, nttVars, circVars, mulVars, restVars>>

\* -(-ciphertext_1).
BfvNegNeg ==
    /\ bfv_pc = "op"
    /\ ciphertext_out' = Ciphertext_neg_q(Ciphertext_neg_q(ciphertext_1, bfv_q), bfv_q)
    /\ bfv_op' = "neg_neg"
    /\ bfv_pc' = "decrypt_out"
    /\ UNCHANGED <<bfv_q, bfv_t, secret_key, public_key, key_error, plaintext_1,
                   plaintext_2, ciphertext_1, ciphertext_2, noise_1, noise_2,
                   decrypted_1, decrypted_out, nttVars, circVars, mulVars, restVars>>

\* The result's decrypt(&secret_key).
DecryptOut ==
    /\ bfv_pc = "decrypt_out"
    /\ decrypted_out' = Ciphertext_decrypt(ciphertext_out, secret_key, bfv_q, bfv_t)
    /\ bfv_pc' = "done"
    /\ UNCHANGED <<bfv_q, bfv_t, secret_key, public_key, key_error, plaintext_1,
                   plaintext_2, ciphertext_1, ciphertext_2, noise_1, noise_2,
                   decrypted_1, bfv_op, ciphertext_out, nttVars, circVars, mulVars, restVars>>

BfvNext ==
    \/ KeyGen
    \/ Encrypt1
    \/ Decrypt1
    \/ Encrypt2
    \/ BfvAdd
    \/ BfvSub
    \/ BfvNeg
    \/ BfvNegNeg
    \/ DecryptOut

SpecBFV == BfvInit /\ [][BfvNext]_vars

(***************************************************************************)
(* relin_1_mul_helper and relin_2_mul_helper: one key pair, two            *)
(* encryptions, and the product relinearized with each kind of key.        *)
(***************************************************************************)
MulPlaintextModuli == {4, 32}
\* base_log = log2(q) and base_sqrt = ceil(sqrt(q)) of relin_1_mul_test.
RelinBases == {16, 256}
\* The error polynomials the samplers draw in these tests.
NoisePolys == {<<x, 0 - x>> : x \in {0 - MaxNoise, MaxNoise}}
MulMessages(t) == {<<x, t - 1>> : x \in 0..MaxMsg}
\* The uniform polynomial of the i-th pair of a v1 key.
Rlk1Uniform(i, q) == <<(12345 * i) % q, q - i>>
\* The uniform polynomials modulo p*q of a v2 key.
Rlk2Uniforms ==
    {<<[hi |-> 1, lo |-> BfvP - 1], [hi |-> BfvQ \div 2, lo |-> 3]>>,
     <<[hi |-> BfvQ - 1, lo |-> 54321], [hi |-> 7, lo |-> BfvP \div 2]>>}

MulInit ==
    /\ bfv_q = BfvQ
    /\ bfv_t \in MulPlaintextModuli
    /\ BfvFresh
    /\ MulIdle
    /\ NttIdle
    /\ CircIdle
    /\ RestIdle

\* Plaintext::new(msg_1, t).encrypt(&public_key, ..).
MulEncrypt1 ==
    /\ bfv_pc = "encrypt_1"
    /\ \E m \in MulMessages(bfv_t), r \in EncryptDraws, e_0 \in NoisePolys :
          /\ plaintext_1' = m
          /\ ciphertext_1' = Plaintext_encrypt(public_key, m, r.u, e_0, r.e_1, bfv_q, bfv_t)
          /\ noise_1' = EncryptionNoise(secret_key, key_error, r.u, e_0, r.e_1)
    /\ bfv_pc' = "encrypt_2"
    /\ UNCHANGED <<bfv_q, bfv_t, secret_key, public_key, key_error, plaintext_2,
                   ciphertext_2, noise_2, decrypted_1, bfv_op, ciphertext_out,
                   decrypted_out, nttVars, circVars, mulVars, restVars>>

\* Plaintext::new(msg_2, t).encrypt(&public_key, ..).
MulEncrypt2 ==
    /\ bfv_pc = "encrypt_2"
    /\ \E m \in MulMessages(bfv_t), r \in EncryptDraws, e_0 \in NoisePolys :
          /\ plaintext_2' = m
          /\ ciphertext_2' = Plaintext_encrypt(public_key, m, r.u, e_0, r.e_1, bfv_q, bfv_t)
          /\ noise_2' = EncryptionNoise(secret_key, key_error, r.u, e_0, r.e_1)
    /\ bfv_pc' = "rlk_1"
    /\ UNCHANGED <<bfv_q, bfv_t, secret_key, public_key, key_error, plaintext_1,
                   ciphertext_1, noise_1, decrypted_1, bfv_op, ciphertext_out,
                   decrypted_out, nttVars, circVars, mulVars, restVars>>

\* secret_key.relin_key_gen_1(q, std_dev, &mut rng, base).
RelinKeyGen1 ==
    /\ bfv_pc = "rlk_1"
    /\ \E base \in RelinBases, e \in NoisePolys :
          /\ rlk_base' = base
          /\ rlk_1' = relin_key_gen_1(secret_key,
                          [i \in 1..NumDigits(bfv_q, base) |-> Rlk1Uniform(i, bfv_q)],
                          [i \in 1..NumDigits(bfv_q, base) |-> e], bfv_q, base)
    /\ bfv_pc' = "mul_1"
    /\ UNCHANGED <<bfv_q, bfv_t, secret_key, public_key, key_error, plaintext_1,
                   plaintext_2, ciphertext_1, ciphertext_2, noise_1, noise_2,
                   decrypted_1, bfv_op, ciphertext_out, decrypted_out, rlk_2,
                   plaintext_3, plaintext_4, ciphertext_3, ciphertext_4, noise_3,
                   noise_4, mul_ct_1, mul_ct_2, decrypted_mul_1, decrypted_mul_2,
                   nttVars, circVars, restVars>>

\* ciphertext_1 * (ciphertext_2, &rlk_1): basic_mul, then relinearization v1.
MulRelin1 ==
    /\ bfv_pc = "mul_1"
    /\ mul_ct_1' = relinearize_1(Ciphertext_basic_mul(ciphertext_1, ciphertext_2, bfv_t),
                                 rlk_1, bfv_q, rlk_base)
    /\ bfv_pc' = "decrypt_mul_1"
    /\ UNCHANGED <<bfv_q, bfv_t, secret_key, public_key, key_error, plaintext_1,
                   plaintext_2, ciphertext_1, ciphertext_2, noise_1, noise_2,
                   decrypted_1, bfv_op, ciphertext_out, decrypted_out, rlk_1,
                   rlk_base, rlk_2, plaintext_3, plaintext_4, ciphertext_3,
                   ciphertext_4, noise_3, noise_4, mul_ct_2, decrypted_mul_1,
                   decrypted_mul_2, nttVars, circVars, restVars>>

\* mul_ciphertext.decrypt(&secret_key) of relin_1_mul_helper.
DecryptMul1 ==
    /\ bfv_pc = "decrypt_mul_1"
    /\ decrypted_mul_1' = Ciphertext_decrypt(mul_ct_1, secret_key, bfv_q, bfv_t)
    /\ bfv_pc' = "rlk_2"
    /\ UNCHANGED <<bfv_q, bfv_t, secret_key, public_key, key_error, plaintext_1,
                   plaintext_2, ciphertext_1, ciphertext_2, noise_1, noise_2,
                   decrypted_1, bfv_op, ciphertext_out, decrypted_out, rlk_1,
                   rlk_base, rlk_2, plaintext_3, plaintext_4, ciphertext_3,
                   ciphertext_4, noise_3, noise_4, mul_ct_1, mul_ct_2,
                   decrypted_mul_2, nttVars, circVars, restVars>>

\* secret_key.relin_key_gen_2(q, std_dev, &mut rng, p).
RelinKeyGen2 ==
    /\ bfv_pc = "rlk_2"
    /\ \E a \in Rlk2Uniforms, e \in NoisePolys :
          rlk_2' = relin_key_gen_2(secret_key, a, e)
    /\ bfv_pc' = "mul_2"
    /\ UNCHANGED <<bfv_q, bfv_t, secret_key, public_key, key_error, plaintext_1,
                   plaintext_2, ciphertext_1, ciphertext_2, noise_1, noise_2,
                   decrypted_1, bfv_op, ciphertext_out, decrypted_out, rlk_1,
                   rlk_base, plaintext_3, plaintext_4, ciphertext_3, ciphertext_4,
                   noise_3, noise_4, mul_ct_1, mul_ct_2, decrypted_mul_1,
                   decrypted_mul_2, nttVars, circVars, restVars>>

\* ciphertext_1 * (ciphertext_2, &rlk_2): basic_mul, then relinearization v2.
MulRelin2 ==
    /\ bfv_pc = "mul_2"
    /\ mul_ct_2' = relinearize_2(Ciphertext_basic_mul(ciphertext_1, ciphertext_2, bfv_t),
                                 rlk_2, bfv_q)
    /\ bfv_pc' = "decrypt_mul_2"
    /\ UNCHANGED <<bfv_q, bfv_t, secret_key, public_key, key_error, plaintext_1,
                   plaintext_2, ciphertext_1, ciphertext_2, noise_1, noise_2,
                   decrypted_1, bfv_op, ciphertext_out, decrypted_out, rlk_1,
                   rlk_base, rlk_2, plaintext_3, plaintext_4, ciphertext_3,
                   ciphertext_4, noise_3, noise_4, mul_ct_1, decrypted_mul_1,
                   decrypted_mul_2, nttVars, circVars, restVars>>

\* mul_ciphertext.decrypt(&secret_key) of relin_2_mul_helper.
DecryptMul2 ==
    /\ bfv_pc = "decrypt_mul_2"
    /\ decrypted_mul_2' = Ciphertext_decrypt(mul_ct_2, secret_key, bfv_q, bfv_t)
    /\ bfv_pc' = "done"
    /\ UNCHANGED <<bfv_q, bfv_t, secret_key, public_key, key_error, plaintext_1,
                   plaintext_2, ciphertext_1, ciphertext_2, noise_1, noise_2,
                   decrypted_1, bfv_op, ciphertext_out, decrypted_out, rlk_1,
                   rlk_base, rlk_2, plaintext_3, plaintext_4, ciphertext_3,
                   ciphertext_4, noise_3, noise_4, mul_ct_1, mul_ct_2,
                   decrypted_mul_1, nttVars, circVars, restVars>>

MulNext ==
    \/ KeyGen
    \/ MulEncrypt1
    \/ MulEncrypt2
    \/ RelinKeyGen1
    \/ MulRelin1
    \/ DecryptMul1
    \/ RelinKeyGen2
    \/ MulRelin2
    \/ DecryptMul2

SpecMul == MulInit /\ [][MulNext]_vars

(***************************************************************************)
(* end_to_end_test: q = 65536, t = 16, degree 4, a v1 key of base log2(q), *)
(* four encryptions, ct_1 * ct_2 + ct_3 * ct_4.                            *)
(***************************************************************************)
ExprT == 16
ExprBase == 16
ExprSecretKeys == {<<1, -1, 0, 1>>, <<0, 1, 1, -1>>}
ExprUniform == <<1, BfvQ - 1, BfvQ \div 2, 3>>
ExprRlkUniform(i) == <<(12345 * i) % BfvQ, BfvQ - i, (777 * i) % BfvQ, i>>
\* The error polynomials of degree 4 the samplers draw.
ExprNoisePolys == {<<x, 0 - x, x, 0 - x>> : x \in {0 - MaxNoise, MaxNoise}}
\* The draws of e_0: of magnitude MaxNoise, or half the budget q/(2t).
ExprE0Polys == {<<x, 0 - x, 0, x>> : x \in {MaxNoise, Budget(BfvQ, ExprT) \div 2}}
ExprU == <<1, -1, 0, 1>>
ExprE1 == <<0 - MaxNoise, MaxNoise, MaxNoise, 0>>
\* Plaintext::rand(degree, t): coefficients in [0, t).
ExprMessages == {<<x, ExprT - 1, 1, 0>> : x \in 0..MaxMsg}

ExprInit ==
    /\ bfv_q = BfvQ
    /\ bfv_t = ExprT
    /\ BfvFresh
    /\ MulIdle
    /\ NttIdle
    /\ CircIdle
    /\ RestIdle

\* SecretKey::generate, then public_key_gen.
ExprKeyGen ==
    /\ bfv_pc = "keygen"
    /\ \E s \in ExprSecretKeys, e \in ExprNoisePolys :
          /\ secret_key' = s
          /\ key_error' = e
          /\ public_key' = public_key_gen(s, ExprUniform, e, bfv_q)
    /\ bfv_pc' = "rlk_1"
    /\ UNCHANGED <<bfv_q, bfv_t, plaintext_1, plaintext_2, ciphertext_1,
                   ciphertext_2, noise_1, noise_2, decrypted_1, bfv_op,
                   ciphertext_out, decrypted_out, nttVars, circVars, mulVars, restVars>>

\* secret_key.relin_key_gen_1(q, std_dev, &mut rng, rlk_base).
ExprRelinKeyGen ==
    /\ bfv_pc = "rlk_1"
    /\ rlk_base' = ExprBase
    /\ \E e \in ExprNoisePolys :
          rlk_1' = relin_key_gen_1(secret_key,
                       [i \in 1..NumDigits(bfv_q, ExprBase) |-> ExprRlkUniform(i)],
                       [i \in 1..NumDigits(bfv_q, ExprBase) |-> e], bfv_q, ExprBase)
    /\ bfv_pc' = "encrypt_1"
    /\ UNCHANGED <<bfvMost, plaintext_1, plaintext_2, ciphertext_1, ciphertext_2,
                   noise_1, noise_2, rlk_2, plaintext_3, plaintext_4, ciphertext_3,
                   ciphertext_4, noise_3, noise_4, mul_ct_1, mul_ct_2,
                   decrypted_mul_1, decrypted_mul_2, nttVars, circVars, restVars>>

\* pt_1.encrypt(&public_key, std_dev, &mut rng).
ExprEncrypt1 ==
    /\ bfv_pc = "encrypt_1"
    /\ \E m \in ExprMessages, e_0 \in ExprE0Polys :
          /\ plaintext_1' = m
          /\ ciphertext_1' = Plaintext_encrypt(public_key, m, ExprU, e_0, ExprE1, bfv_q, bfv_t)
          /\ noise_1' = EncryptionNoise(secret_key, key_error, ExprU, e_0, ExprE1)
    /\ bfv_pc' = "encrypt_2"
    /\ UNCHANGED <<bfvMost, plaintext_2, ciphertext_2, noise_2, mulVars, nttVars,
                   circVars, restVars>>

\* pt_2.encrypt(&public_key, std_dev, &mut rng).
ExprEncrypt2 ==
    /\ bfv_pc = "encrypt_2"
    /\ \E m \in ExprMessages, e_0 \in ExprE0Polys :
          /\ plaintext_2' = m
          /\ ciphertext_2' = Plaintext_encrypt(public_key, m, ExprU, e_0, ExprE1, bfv_q, bfv_t)
          /\ noise_2' = EncryptionNoise(secret_key, key_error, ExprU, e_0, ExprE1)
    /\ bfv_pc' = "encrypt_3"
    /\ UNCHANGED <<bfvMost, plaintext_1, ciphertext_1, noise_1, mulVars, nttVars,
                   circVars, restVars>>

\* pt_3.encrypt(&public_key, std_dev, &mut rng).
ExprEncrypt3 ==
    /\ bfv_pc = "encrypt_3"
    /\ \E m \in ExprMessages, e_0 \in ExprE0Polys :
          /\ plaintext_3' = m
          /\ ciphertext_3' = Plaintext_encrypt(public_key, m, ExprU, e_0, ExprE1, bfv_q, bfv_t)
          /\ noise_3' = EncryptionNoise(secret_key, key_error, ExprU, e_0, ExprE1)
    /\ bfv_pc' = "encrypt_4"
    /\ UNCHANGED <<bfvMost, plaintext_1, plaintext_2, ciphertext_1, ciphertext_2,
                   noise_1, noise_2, rlk_1, rlk_base, rlk_2, plaintext_4,
                   ciphertext_4, noise_4, mul_ct_1, mul_ct_2, decrypted_mul_1,
                   decrypted_mul_2, nttVars, circVars, restVars>>

\* pt_4.encrypt(&public_key, std_dev, &mut rng).
ExprEncrypt4 ==
    /\ bfv_pc = "encrypt_4"
    /\ \E m \in ExprMessages, e_0 \in ExprE0Polys :
          /\ plaintext_4' = m
          /\ ciphertext_4' = Plaintext_encrypt(public_key, m, ExprU, e_0, ExprE1, bfv_q, bfv_t)
          /\ noise_4' = EncryptionNoise(secret_key, key_error, ExprU, e_0, ExprE1)
    /\ bfv_pc' = "mul_1"
    /\ UNCHANGED <<bfvMost, plaintext_1, plaintext_2, ciphertext_1, ciphertext_2,
                   noise_1, noise_2, rlk_1, rlk_base, rlk_2, plaintext_3,
                   ciphertext_3, noise_3, mul_ct_1, mul_ct_2, decrypted_mul_1,
                   decrypted_mul_2, nttVars, circVars, restVars>>

\* ct_1 * (ct_2, &rlk_1).
ExprMul1 ==
    /\ bfv_pc = "mul_1"
    /\ mul_ct_1' = relinearize_1(Ciphertext_basic_mul(ciphertext_1, ciphertext_2, bfv_t),
                                 rlk_1, bfv_q, rlk_base)
    /\ bfv_pc' = "mul_2"
    /\ UNCHANGED <<bfvMost, plaintext_1, plaintext_2, ciphertext_1, ciphertext_2,
                   noise_1, noise_2, rlk_1, rlk_base, rlk_2, plaintext_3,
                   plaintext_4, ciphertext_3, ciphertext_4, noise_3, noise_4,
                   mul_ct_2, decrypted_mul_1, decrypted_mul_2, nttVars, circVars, restVars>>

\* ct_3 * (ct_4, &rlk_1).
ExprMul2 ==
    /\ bfv_pc = "mul_2"
    /\ mul_ct_2' = relinearize_1(Ciphertext_basic_mul(ciphertext_3, ciphertext_4, bfv_t),
                                 rlk_1, bfv_q, rlk_base)
    /\ bfv_pc' = "add"
    /\ UNCHANGED <<bfvMost, plaintext_1, plaintext_2, ciphertext_1, ciphertext_2,
                   noise_1, noise_2, rlk_1, rlk_base, rlk_2, plaintext_3,
                   plaintext_4, ciphertext_3, ciphertext_4, noise_3, noise_4,
                   mul_ct_1, decrypted_mul_1, decrypted_mul_2, nttVars, circVars, restVars>>

\* The sum of the two products: expr_ct.
ExprAdd ==
    /\ bfv_pc = "add"
    /\ ciphertext_out' = Ciphertext_add_q(mul_ct_1, mul_ct_2, bfv_q)
    /\ bfv_op' = "add"
    /\ bfv_pc' = "decrypt_out"
    /\ UNCHANGED <<bfv_q, bfv_t, secret_key, public_key, key_error, plaintext_1,
                   plaintext_2, ciphertext_1, ciphertext_2, noise_1, noise_2,
                   decrypted_1, decrypted_out, nttVars, circVars, mulVars, restVars>>

ExprNext ==
    \/ ExprKeyGen
    \/ ExprRelinKeyGen
    \/ ExprEncrypt1
    \/ ExprEncrypt2
    \/ ExprEncrypt3
    \/ ExprEncrypt4
    \/ ExprMul1
    \/ ExprMul2
    \/ ExprAdd
    \/ DecryptOut

SpecExpr == ExprInit /\ [][ExprNext]_vars

(***************************************************************************)
(* One addition of ArithmeticChip::add_ciphertexts under a prover that     *)
(* picks the witness: the operand wires and the quotient wire come from    *)
(* AssignedValue::new, eval_added and ct_result_eval are the outputs of    *)
(* cb.add and cb.arithmetic, and ct_result_eval goes through               *)
(* AssignedValue::new_from_target.  A field element is held by its signed  *)
(* representative: a negative one stands for P - k.                        *)
(***************************************************************************)
\* CircuitBuilder::range_check(target, n_log): the value is below 2^n_log.
range_check(value, n_log) == value >= 0 /\ value < Pow2(n_log)

\* AssignedValue::new and AssignedValue::new_from_target: the wire is put
\* under cb.range_check(.., log2_ceil(Q)).
AssignedValue_new(range_checks, wire) == range_checks \cup {wire}
AssignedValue_new_from_target(range_checks, target) == range_checks \cup {target}

\* What a prover may put on an operand wire and on the quotient wire.
ProverVals == {0, 1, Q \div 2, Q - 1, Q, Q + 1, Pow2(RangeBits) - 1, Pow2(RangeBits)}
ProverQuotients == {0, 1, 2, Pow2(RangeBits) - 1, Pow2(RangeBits)}

SoundInit ==
    /\ prover_pc = "build"
    /\ checked = {}
    /\ prover_witness = <<>>
    /\ AssignIdle /\ DivIdle /\ ParamIdle /\ SubIdle
    /\ NttIdle /\ CircIdle /\ BfvIdle /\ MulIdle /\ LateIdle

\* The circuit of one addition is built.
SoundBuild ==
    /\ prover_pc = "build"
    /\ checked' = AssignedValue_new_from_target(
                      AssignedValue_new(
                          AssignedValue_new(AssignedValue_new({}, "ct0"), "ct1"),
                          "quotient"),
                      "ct_result")
    /\ prover_pc' = "assign"
    /\ UNCHANGED <<prover_witness, assignVars, divVars, paramVars, subVars,
                   nttVars, circVars, bfvVars, mulVars, lateVars>>

\* The prover chooses the operands and the quotient; the two gates fix
\* eval_added and ct_result from them.
ProverAssign ==
    /\ prover_pc = "assign"
    /\ \E x \in ProverVals, y \in ProverVals, k \in ProverQuotients :
          prover_witness' = [ct0 |-> x, ct1 |-> y, quotient |-> k,
                             eval_added |-> cb_add(x, y),
                             ct_result |-> add_ciphertexts_gate(k, cb_add(x, y))]
    /\ prover_pc' = "verify"
    /\ UNCHANGED <<checked, assignVars, divVars, paramVars, subVars,
                   nttVars, circVars, bfvVars, mulVars, lateVars>>

\* The constraints are checked: the gates hold by construction, the range
\* checks decide.
SoundVerify ==
    /\ prover_pc = "verify"
    /\ prover_pc' = IF \A w \in checked : range_check(prover_witness[w], RangeBits)
                    THEN "accepted" ELSE "rejected"
    /\ UNCHANGED <<checked, prover_witness, assignVars, divVars, paramVars,
                   subVars, nttVars, circVars, bfvVars, mulVars, lateVars>>

SoundNext ==
    \/ SoundBuild
    \/ ProverAssign
    \/ SoundVerify

SpecSound == SoundInit /\ [][SoundNext]_vars

(***************************************************************************)
(* The `assign` methods of assigned.rs on a coefficient vector whose       *)
(* length may differ from N.                                               *)
(***************************************************************************)
\* The indices ntt_fw_update reads and writes in pass m: a[j] and a[j + t].
ntt_fw_update_indices(m) ==
    LET t == N \div (2 * m)
    IN  UNION {{j, j + t} : j \in UNION {(2 * i * t)..(2 * i * t + t - 1) : i \in 0..(m - 1)}}

\* Indexing a Vec at or past its length panics: ntt_forward panics on the
\* vector `a` when some pass reaches such an index.
ntt_forward_panics(a) ==
    \E i \in 0..(LOGN - 1) : \E j \in ntt_fw_update_indices(Pow2(i)) : j >= Len(a)

\* AssignedPoly::assign: assert_eq!(coeffs.len(), N), then one set_target per
\* zipped pair.
AssignedPoly_assign(pw, coeff_targets, coeffs) ==
    IF Len(coeffs) # N THEN [pw |-> pw, result |-> "panic"]
    ELSE [pw |-> set_targets(pw, coeff_targets,
                             [k \in 1..Len(coeffs) |-> from_canonical_i64(coeffs[k])]),
          result |-> "ok"]

\* AssignedNTTPoly::assign as a call: ntt_forward of the coefficients, then one
\* set_target per pair of self.evals.iter().zip(evals).
AssignedNTTPoly_assign_call(pw, eval_targets, coeffs) ==
    IF ntt_forward_panics(coeffs) THEN [pw |-> pw, result |-> "panic"]
    ELSE [pw |-> set_targets(pw, eval_targets, AssignedNTTPoly_assign(coeffs)),
          result |-> "ok"]

\* AssignedCiphertext::assign: ciphertext[0].assign(..)?, ciphertext[1].assign(..)?.
AssignedCiphertext_assign_call(pw, a, ct) ==
    LET first == AssignedNTTPoly_assign_call(pw, AssignedCiphertext_ciphertext(a)[1], ct.c_0)
    IN  IF first.result # "ok" THEN first
        ELSE AssignedNTTPoly_assign_call(first.pw, AssignedCiphertext_ciphertext(a)[2], ct.c_1)

\* Coefficient vectors one shorter than N, of length N, and one longer.
CoeffVectors == UNION {[1..len -> 0..MaxCoeff] : len \in (N - 1)..(N + 1)}

AssignInit ==
    /\ poly_coeffs \in CoeffVectors
    /\ assign_pc = "start"
    /\ assign_pw = <<>>
    /\ assign_result = "none"
    /\ SoundIdle /\ DivIdle /\ ParamIdle /\ SubIdle
    /\ NttIdle /\ CircIdle /\ BfvIdle /\ MulIdle /\ LateIdle

\* One call of `assign` on fresh wires with an empty PartialWitness.
AssignCall(name, outcome) ==
    /\ assign_pc = "start"
    /\ assign_pw' = outcome.pw
    /\ assign_result' = outcome.result
    /\ assign_pc' = name
    /\ UNCHANGED <<poly_coeffs, soundVars, divVars, paramVars, subVars,
                   nttVars, circVars, bfvVars, mulVars, lateVars>>

AssignPoly ==
    AssignCall("AssignedPoly", AssignedPoly_assign(<<>>, FreshWires(0, N), poly_coeffs))
AssignNTTPoly ==
    AssignCall("AssignedNTTPoly",
               AssignedNTTPoly_assign_call(<<>>, FreshWires(0, N), poly_coeffs))
AssignCiphertext ==
    AssignCall("AssignedCiphertext",
               AssignedCiphertext_assign_call(<<>>, FreshWires(0, 2 * N),
                                              [c_0 |-> poly_coeffs, c_1 |-> poly_coeffs]))

AssignNext ==
    \/ AssignPoly
    \/ AssignNTTPoly
    \/ AssignCiphertext

SpecAssign == AssignInit /\ [][AssignNext]_vars

(***************************************************************************)
(* rounded_div (cyclotomic-ring utils.rs) on drawn arguments.              *)
(***************************************************************************)
Dividends == (0 - MaxDividend)..MaxDividend
Divisors == ((0 - MaxDivisor)..MaxDivisor) \ {0}

DivInit ==
    /\ dividend \in Dividends
    /\ divisor \in Divisors
    /\ div_result = <<>>
    /\ SoundIdle /\ AssignIdle /\ ParamIdle /\ SubIdle
    /\ NttIdle /\ CircIdle /\ BfvIdle /\ MulIdle /\ LateIdle

\* rounded_div(dividend, divisor) is called.
RoundedDiv ==
    /\ div_result = <<>>
    /\ div_result' = <<rounded_div(dividend, divisor)>>
    /\ UNCHANGED <<dividend, divisor, soundVars, assignVars, paramVars, subVars,
                   nttVars, circVars, bfvVars, mulVars, lateVars>>

DivNext == RoundedDiv

SpecDiv == DivInit /\ [][DivNext]_vars

(***************************************************************************)
(* NTTChip<F, D, Q>::ntt_forward with the table of params_8.rs, for the    *)
(* const generic Q of the tests and for the modulus 97.                    *)
(***************************************************************************)
\* Mutant of NTTChip_Q_fw_butterfly: the multiplication by the root is left out.
NTTChip_Q_fw_butterfly_no_root(a, j, t, root, q) ==
    LET u == At(a, j)
        v == At(a, j + t) % q
    IN  Put(Put(a, j, (u + v) % q), j + t, (u + q - v) % q)

\* The butterfly of NTTChip::ntt_fw_update with the chip's operations modulo q.
NTTChip_Q_fw_butterfly(a, j, t, root, q) ==
    LET u == At(a, j)
        v == (At(a, j + t) * root) % q
    IN  Put(Put(a, j, (u + v) % q), j + t, (u + q - v) % q)

RECURSIVE NTTChip_Q_fw_inner(_, _, _, _, _, _)
NTTChip_Q_fw_inner(a, j, j2, t, root, q) ==
    IF j >= j2 THEN a
    ELSE NTTChip_Q_fw_inner(NTTChip_Q_fw_butterfly(a, j, t, root, q), j + 1, j2, t, root, q)

RECURSIVE NTTChip_Q_fw_outer(_, _, _, _, _)
NTTChip_Q_fw_outer(a, i, m, t, q) ==
    IF i >= m THEN a
    ELSE NTTChip_Q_fw_outer(
             NTTChip_Q_fw_inner(a, 2 * i * t, 2 * i * t + t, t, At(ROOTS, m + i), q),
             i + 1, m, t, q)

NTTChip_Q_ntt_fw_update(a, m, q) == NTTChip_Q_fw_outer(a, 0, m, N \div (2 * m), q)

\* The moduli tried, and the vectors assigned to the input wires.
Moduli == {97, Q}
ParamInputs == {TESTG, TESTGHAT} \cup {Mono(c, k) : c \in InputVals \ {0}, k \in 0..(N - 1)}

ParamInit ==
    /\ ring_modulus \in Moduli
    /\ g \in ParamInputs
    /\ g_current = g
    /\ g_i = 0
    /\ SoundIdle /\ AssignIdle /\ DivIdle /\ SubIdle
    /\ NttIdle /\ CircIdle /\ BfvIdle /\ MulIdle /\ LateIdle

\* One iteration of the loop of NTTChip::ntt_forward.
ParamFwUpdate ==
    /\ g_i < LOGN
    /\ g_current' = NTTChip_Q_ntt_fw_update(g_current, Pow2(g_i), ring_modulus)
    /\ g_i' = g_i + 1
    /\ UNCHANGED <<ring_modulus, g, soundVars, assignVars, divVars, subVars,
                   nttVars, circVars, bfvVars, mulVars, lateVars>>

ParamNext == ParamFwUpdate

SpecParams == ParamInit /\ [][ParamNext]_vars

(***************************************************************************)
(* One ArithmeticChip::sub on operands in [0,Q), as the butterflies of     *)
(* NTTChip call it.                                                        *)
(***************************************************************************)
\* Operands at both ends of [0,Q) and around Q/2.
SubVals == (0..(MaxVal + 2)) \cup {Half, Half + 1} \cup ((Q - MaxVal - 2)..(Q - 1))

SubInit ==
    /\ sub_x \in SubVals
    /\ sub_y \in SubVals
    /\ sub_pc = "start"
    /\ sub_minuend = 0
    /\ sub_quotient = 0
    /\ sub_result = 0
    /\ SoundIdle /\ AssignIdle /\ DivIdle /\ ParamIdle
    /\ NttIdle /\ CircIdle /\ BfvIdle /\ MulIdle /\ LateIdle

\* self.arithmetic_chip.sub(u, v) and the run of its generator.
ChipSub ==
    /\ sub_pc = "start"
    /\ sub_minuend' = ArithmeticChip_sub_minuend(sub_x, sub_y)
    /\ sub_quotient' = ArithmeticChip_sub_quotient(sub_x, sub_y)
    /\ sub_result' = ArithmeticChip_sub(sub_x, sub_y)
    /\ sub_pc' = "done"
    /\ UNCHANGED <<sub_x, sub_y, soundVars, assignVars, divVars, paramVars,
                   nttVars, circVars, bfvVars, mulVars, lateVars>>

SubNext == ChipSub

SpecSub == SubInit /\ [][SubNext]_vars

(***************************************************************************)
(* AssignedRelinearizationKey::new and ::assign of assigned.rs, on a key   *)
(* of relin_key_gen_1 for the same modulus and base.                       *)
(***************************************************************************)
\* No run of the specifications above is under way.
EarlyIdle ==
    /\ NttIdle /\ CircIdle /\ BfvIdle /\ MulIdle
    /\ SoundIdle /\ AssignIdle /\ DivIdle /\ ParamIdle /\ SubIdle

\* plonky2::util::log_floor: the number of times w = base, base^2, ... stays
\* at most n, which is floor(log_base(n)).
RECURSIVE log_floor_from(_, _, _, _)
log_floor_from(n, base, w, i) ==
    IF w <= n THEN log_floor_from(n, base, w * base, i + 1) ELSE i

log_floor(n, base) == log_floor_from(n, base, base, 0)

\* AssignedRelinearizationKey::new: one pair of AssignedNTTPoly per limb.
AssignedRelinearizationKey_new(q, base) == log_floor(q, base)

\* AssignedRelinearizationKey::assign: zip_eq panics when the slots and the
\* key's pairs differ in number.
AssignedRelinearizationKey_assign(slots, pairs) ==
    IF slots = pairs THEN "ok" ELSE "panic"

\* Small moduli, the ring modulus of the circuits, and powers of the bases.
KeyModuli == (2..17) \cup {97, 256, Q, 4096, BfvQ}
KeyBases == {2, 3, 4, 16, 256}

RlkInit ==
    /\ key_modulus \in KeyModuli
    /\ key_base \in KeyBases
    /\ num_limbs = 0
    /\ rlk_val_len = 0
    /\ rlk_pc = "start"
    /\ rlk_result = "none"
    /\ EarlyIdle
    /\ TrIdle

RlkNew ==
    /\ rlk_pc = "start"
    /\ num_limbs' = AssignedRelinearizationKey_new(key_modulus, key_base)
    /\ rlk_pc' = "allocated"
    /\ UNCHANGED <<key_modulus, key_base, rlk_val_len, rlk_result, earlyVars, trVars>>

\* The key from relin_key_gen_1 and its assignment to the allocated slots.
RlkAssign ==
    /\ rlk_pc = "allocated"
    /\ LET digits == NumDigits(key_modulus, key_base)
           rlk == relin_key_gen_1(<<1, -1>>,
                                  [i \in 1..digits |-> Rlk1Uniform(i, key_modulus)],
                                  [i \in 1..digits |-> <<0, 0>>],
                                  key_modulus, key_base)
       IN  /\ rlk_val_len' = Len(rlk)
           /\ rlk_result' = AssignedRelinearizationKey_assign(num_limbs, Len(rlk))
    /\ rlk_pc' = "done"
    /\ UNCHANGED <<key_modulus, key_base, num_limbs, earlyVars, trVars>>

RlkNext == RlkNew \/ RlkAssign

SpecRlk == RlkInit /\ [][RlkNext]_vars

(***************************************************************************)
(* AssignedNTTPoly::assign on coefficient vectors of length N whose        *)
(* coefficients may be negative or at least Q.                             *)
(***************************************************************************)
\* NTTChip::ntt_forward: the passes m = 1, 2, ..., N/2 through the arithmetic
\* chip, that is, the forward transform in the integers mod Q.
RECURSIVE NTTChip_ntt_forward_from(_, _)
NTTChip_ntt_forward_from(current, i) ==
    IF i >= LOGN THEN current
    ELSE NTTChip_ntt_forward_from(NTTChip_ntt_fw_update(current, Pow2(i)), i + 1)

NTTChip_ntt_forward(a) == NTTChip_ntt_forward_from(a, 0)

\* The coefficients taken mod Q.
CoeffsModQ(coeffs) == [k \in 1..Len(coeffs) |-> coeffs[k] % Q]

\* Coefficients around 0, below 0, and at and above Q.
SignedCoeffVals == ((0 - MaxCoeff)..MaxCoeff) \cup {Q - 1, Q, Q + 1}
SignedCoeffVectors == {a \in [1..N -> SignedCoeffVals] : Weight(a) <= 2}

AssignNTTInit ==
    /\ poly_coeffs \in SignedCoeffVectors
    /\ assign_pc = "start"
    /\ assign_pw = <<>>
    /\ assign_result = "none"
    /\ SoundIdle /\ DivIdle /\ ParamIdle /\ SubIdle
    /\ NttIdle /\ CircIdle /\ BfvIdle /\ MulIdle /\ LateIdle

AssignNTTNext == AssignNTTPoly

SpecAssignNTT == AssignNTTInit /\ [][AssignNTTNext]_vars

(***************************************************************************)
(* Transpose for Vec<Vec<F>> of cyclotomic-ring's utils.rs.                *)
(***************************************************************************)
\* self.iter().map(|d_i| d_i.len()).max().unwrap_or(0)
RECURSIVE max_len_from(_, _, _)
max_len_from(rows, r, best) ==
    IF r > Len(rows) THEN best
    ELSE max_len_from(rows, r + 1, IF Len(rows[r]) > best THEN Len(rows[r]) ELSE best)

\* Mutant of transpose_row: the shorter rows are not padded.
transpose_row_unpadded(res, row) ==
    [c \in 1..Len(res) |-> IF c <= Len(row) THEN Append(res[c], row[c]) ELSE res[c]]

\* The body of `for row in self`: each value of the row is pushed to the
\* column of its index, and F::zero() to the columns the row does not reach.
transpose_row(res, row) ==
    [c \in 1..Len(res) |-> Append(res[c], IF c <= Len(row) THEN row[c] ELSE 0)]

RECURSIVE transpose_from(_, _, _)
transpose_from(rows, r, res) ==
    IF r > Len(rows) THEN res
    ELSE transpose_from(rows, r + 1, transpose_row(res, rows[r]))

\* Transpose::transpose: ncols empty vectors, filled row by row.
transpose(rows) ==
    LET ncols == max_len_from(rows, 1, 0)
    IN  transpose_from(rows, 1, [c \in 1..ncols |-> <<>>])

\* Rows of up to MaxCols elements, each 0 or 1, and lists of up to MaxRows rows.
Rows == UNION {[1..len -> {0, 1}] : len \in 0..MaxCols}
Matrices == UNION {[1..n -> Rows] : n \in 0..MaxRows}

TransposeInit ==
    /\ matrix \in Matrices
    /\ transposed = <<>>
    /\ transposed_twice = <<>>
    /\ transpose_pc = "start"
    /\ EarlyIdle
    /\ RlkIdle

TransposeOnce ==
    /\ transpose_pc = "start"
    /\ transposed' = transpose(matrix)
    /\ transpose_pc' = "once"
    /\ UNCHANGED <<matrix, transposed_twice, earlyVars, rlkVars>>

TransposeTwice ==
    /\ transpose_pc = "once"
    /\ transposed_twice' = transpose(transposed)
    /\ transpose_pc' = "twice"
    /\ UNCHANGED <<matrix, transposed, earlyVars, rlkVars>>

TransposeNext == TransposeOnce \/ TransposeTwice

SpecTranspose == TransposeInit /\ [][TransposeNext]_vars

(***************************************************************************)
(* Claims about the transforms, checked under SpecNTT.                     *)
(***************************************************************************)
PlainDone == plain_i = LOGN
ChipFwDone == chip_hat # <<>>

\* C1: for every input vector of N values in [0,Q), vbfv::ntt_forward returns,
\* index for index, the values NTTChip::ntt_forward computes through the
\* arithmetic chip.
C1_PlainEqualsChip == (PlainDone /\ ChipFwDone) => plain = chip_hat

\* C4: NTT round trip: ntt_backward applied to ntt_forward(x) returns x, for
\* every vector x of N values in [0,Q).
C4_RoundTrip == chip_pc = "done" => chip = input

\* A run of both transforms on a vector with several non-zero entries, whose
\* transform differs from it, has come back to the input.
C4_Witness ==
    /\ chip_pc = "done"
    /\ Weight(input) > 1
    /\ chip_hat # input
    /\ chip = input

\* C5: the forward transform of TESTG is TESTGHAT, element by element.
C5_TestVector == (input = TESTG /\ ChipFwDone) => chip_hat = TESTGHAT

\* The forward transform has run on TESTG and returned TESTGHAT.
C5_Witness == input = TESTG /\ ChipFwDone /\ chip_hat = TESTGHAT

(***************************************************************************)
(* Claims about the addition circuits.                                     *)
(***************************************************************************)
\* C2: with both operands assigned from ct1 and ct2, the 2N public outputs of
\* add_ciphertexts are the off-circuit forward NTT of the coefficient-wise sum
\* ct1 + ct2 mod Q, c_0's N values first and c_1's after.
C2_AddMatchesPlainSum ==
    pc = "proved" => proof_public = AssignedCiphertext_assign(Ciphertext_add(ct1, ct2))

\* C3: for all operand values x, y in [0,Q) the add generator assigns
\* quotient = floor((x+y)/Q) and result = (x+y) mod Q; these satisfy the gate
\* result = x + y - quotient*Q in the native field without wrap-around, the
\* result lies in [0,Q) and the quotient fits its range check.
C3_AddWitness ==
    (pc = "prove" /\ gen_ran) =>
        \A i \in 1..(2 * N) :
            LET x == witness[a_ct1[i]]
                y == witness[a_ct2[i]]
                q == out_buffer[2 * i - 1]
                r == out_buffer[2 * i]
            IN  /\ x \in 0..(Q - 1) /\ y \in 0..(Q - 1)
                /\ q[1] = quotient[i] /\ r[1] = a_sum[i]
                /\ q[2] * Q <= x + y /\ x + y < (q[2] + 1) * Q
                /\ r[2] = x + y - q[2] * Q
                /\ add_ciphertexts_gate(q[2], cb_add(x, y)) = r[2]
                /\ r[2] \in 0..(Q - 1)
                /\ q[2] \in 0..(Pow2(RangeBits) - 1)

\* The generator has run on operands whose sums fall on both sides of Q: one
\* pair adds up to exactly Q - 1 (quotient 0), another to exactly Q (quotient 1).
C3_Witness ==
    /\ pc = "prove" /\ gen_ran
    /\ \E i \in 1..(2 * N) :
           /\ witness[a_ct1[i]] + witness[a_ct2[i]] = Q - 1
           /\ out_buffer[2 * i - 1][2] = 0
    /\ \E i \in 1..(2 * N) :
           /\ witness[a_ct1[i]] + witness[a_ct2[i]] = Q
           /\ out_buffer[2 * i - 1][2] = 1 /\ out_buffer[2 * i][2] = 0

(***************************************************************************)
(* Claims about the scheme, checked under SpecBFV.                         *)
(***************************************************************************)
\* `poly % (t, degree)` on a polynomial of that degree: coefficients mod t.
ModT(m, t) == [k \in 1..Len(m) |-> m[k] % t]

ProductInBudget(ct) ==
    NoiseInBudget(CiphertextNoise(ct, secret_key, PolyMulInt(plaintext_1, plaintext_2),
                                  bfv_q, bfv_t),
                  PolyMulInt(plaintext_1, plaintext_2), bfv_q, bfv_t)

ExprPlain ==
    PolyAddInt(PolyMulInt(plaintext_1, plaintext_2), PolyMulInt(plaintext_3, plaintext_4))

\* The noise the two products carry together.
ExprNoise ==
    PolyAddInt(CiphertextNoise(mul_ct_1, secret_key,
                               PolyMulInt(plaintext_1, plaintext_2), bfv_q, bfv_t),
               CiphertextNoise(mul_ct_2, secret_key,
                               PolyMulInt(plaintext_3, plaintext_4), bfv_q, bfv_t))

\* Every error drawn for the four encryptions is of magnitude MaxNoise.
ExprSmallDraws ==
    \A v \in {noise_1, noise_2, noise_3, noise_4} :
        \A k \in 1..Len(v) : Abs(v[k]) <= (2 * Len(v) + 1) * MaxNoise

C12_WiresBelowQ ==
    prover_pc = "accepted" => \A w \in checked : prover_witness[w] \in 0..(Q - 1)

(***************************************************************************)
(* Claims about public inputs and generators, checked under SpecCt.        *)
(***************************************************************************)
\* C13: register_as_public_input on the sum registers its 2N wires, each
\* once, c_0's evals 0..N-1 and then c_1's, which is the order of
\* ciphertext_targets; the proof's public inputs, read in that order, are the
\* values on the ciphertext's wires.
C13_PublicInputOrder ==
    /\ pc \in {"assign_ct1", "assign_ct2", "prove", "proved"} =>
          /\ Len(public_inputs) = 2 * N
          /\ Cardinality(Range(public_inputs)) = 2 * N
          /\ public_inputs = AssignedCiphertext_ciphertext_targets(a_sum)
          /\ \A i \in 1..N :
                /\ public_inputs[i] = AssignedCiphertext_ciphertext(a_sum)[1][i]
                /\ public_inputs[N + i] = AssignedCiphertext_ciphertext(a_sum)[2][i]
    /\ pc = "proved" =>
          /\ Len(proof_public) = 2 * N
          /\ \A k \in 1..(2 * N) :
                proof_public[k] = witness[AssignedCiphertext_ciphertext_targets(a_sum)[k]]

\* A proof whose 2N public inputs are the sum's values, with c_0's half
\* different from c_1's, so that the order shows.
C13_Witness ==
    /\ pc = "proved"
    /\ Len(proof_public) = 2 * N
    /\ SubSeq(proof_public, 1, N) # SubSeq(proof_public, N + 1, 2 * N)
    /\ \A i \in 1..N :
          /\ proof_public[i] = witness[AssignedCiphertext_ciphertext(a_sum)[1][i]]
          /\ proof_public[N + i] = witness[AssignedCiphertext_ciphertext(a_sum)[2][i]]
    /\ \E i \in 1..N : proof_public[i] # 0

(***************************************************************************)
(* Claims about `assign`, checked under SpecAssign.                        *)
(***************************************************************************)
\* C14: assigning a coefficient vector whose length differs from N, shorter or
\* longer, fails and writes no witness value, for AssignedPoly::assign,
\* AssignedNTTPoly::assign and AssignedCiphertext::assign.
C14_WrongLengthFails ==
    (assign_pc \in {"AssignedPoly", "AssignedNTTPoly", "AssignedCiphertext"}
       /\ Len(poly_coeffs) # N)
    => (assign_result = "panic" /\ assign_pw = <<>>)

(***************************************************************************)
(* Claims about rounded_div, checked under SpecDiv.                        *)
(***************************************************************************)
\* C15: for every dividend and every non-zero divisor of either sign,
\* rounded_div returns the integer nearest to dividend/divisor, a tie going
\* to the one farther from zero; and rounded_div(-a, d) = -rounded_div(a, d).
C15_RoundedDivNearest ==
    div_result # <<>> =>
        LET r == div_result[1]
            distance == Abs(dividend - r * divisor)
        IN  /\ 2 * distance <= Abs(divisor)
            /\ 2 * distance = Abs(divisor) => Abs(r * divisor) > Abs(dividend)
            /\ rounded_div(0 - dividend, divisor) = 0 - r

\* A tie with a negative dividend, rounded away from zero.
C15_Witness ==
    /\ div_result # <<>>
    /\ dividend < 0
    /\ divisor > 1
    /\ 2 * Abs(dividend - div_result[1] * divisor) = divisor
    /\ div_result[1] < 0
    /\ div_result[1] * divisor < dividend

(***************************************************************************)
(* Claims about the parameter table, checked under SpecParams.             *)
(***************************************************************************)
\* Every entry of the table is a value modulo q.
TableBelow(q) ==
    /\ NINV < q
    /\ \A k \in 1..N : /\ ROOTS[k] < q /\ INVROOTS[k] < q
                       /\ TESTG[k] < q /\ TESTGHAT[k] < q

\* With modulus q the forward transform of TESTG is TESTGHAT.
TestVectorFor(q) ==
    ring_modulus = q =>
        /\ TableBelow(q)
        /\ (g = TESTG /\ g_i = LOGN) => g_current = TESTGHAT

\* C16, as stated: the N = 8 test vector is the one for modulus 97: the table
\* entries are values mod 97 and the forward NTT of TESTG with Q = 97 is
\* TESTGHAT.
C16_TestVectorQ97 == TestVectorFor(97)

\* C16, amended: the N = 8 test vector is the one for modulus 3329: the table
\* entries are values mod 3329 and the forward NTT of TESTG with Q = 3329 is
\* TESTGHAT.
C16_TestVectorQ3329 == TestVectorFor(Q)

\* The transform of TESTG with modulus 3329 has run and returned TESTGHAT.
C16_Witness ==
    /\ ring_modulus = Q
    /\ g = TESTG
    /\ g_i = LOGN
    /\ g_current = TESTGHAT
    /\ \E k \in 1..N : TESTG[k] >= 97

\* C17: soundness of add, checked under SpecSound: with operand wires holding
\* x, y in [0,Q), the gate result = x + y - quotient*Q and the range checks on
\* result and quotient accept exactly one pair, quotient = floor((x+y)/Q) and
\* result = (x+y) mod Q.
C17_AddSound ==
    (prover_pc = "accepted"
       /\ prover_witness.ct0 \in 0..(Q - 1)
       /\ prover_witness.ct1 \in 0..(Q - 1))
    => /\ prover_witness.quotient = (prover_witness.ct0 + prover_witness.ct1) \div Q
       /\ prover_witness.ct_result = (prover_witness.ct0 + prover_witness.ct1) % Q

C19_GeneratorReadsAssigned ==
    [][(~gen_ran /\ gen_ran') =>
           LET dependencies == Generator_dependencies(a_ct1, a_ct2)
           IN  /\ Cardinality(Range(dependencies)) = 4 * N
               /\ Range(dependencies) \subseteq DOMAIN witness
               /\ gen_reads' \subseteq Range(dependencies)
               /\ gen_reads' \subseteq DOMAIN witness]_vars

\* The generator has run and has read each of the 4N operand wires, all of
\* them assigned.
C19_Witness ==
    /\ gen_ran
    /\ gen_reads = Range(a_ct1) \cup Range(a_ct2)
    /\ Cardinality(gen_reads) = 4 * N
    /\ gen_reads \subseteq DOMAIN witness

\* C20: one call of add_ciphertexts registers one batched generator, and one
\* run of it writes all 2N quotient witnesses: the dependency list splits at
\* its midpoint into ct0's and ct1's wires, the i-th of ct0 is paired with the
\* i-th of ct1, and quotient[i] = floor((ct0[i] + ct1[i]) / Q).
C20_OneRunAllQuotients ==
    /\ pc \in {"register", "assign_ct1", "assign_ct2", "prove", "proved"} =>
          /\ generators = <<"CiphertextOpsGenerator">>
          /\ Cardinality(Range(quotient)) = 2 * N
    /\ gen_ran =>
          LET dependencies == Generator_dependencies(a_ct1, a_ct2)
          IN  /\ split_at(dependencies, Len(dependencies) \div 2) = <<a_ct1, a_ct2>>
              /\ Len(out_buffer) = 2 * N
              /\ \A i \in 1..(2 * N) :
                    /\ out_buffer[i] =
                         <<quotient[i], (witness[a_ct1[i]] + witness[a_ct2[i]]) \div Q>>
                    /\ witness[quotient[i]] = (witness[a_ct1[i]] + witness[a_ct2[i]]) \div Q

\* One run has written 2N quotients, among them a 1 in c_1's half and a 0.
C20_Witness ==
    /\ gen_ran
    /\ Len(out_buffer) = 2 * N
    /\ \E i \in (N + 1)..(2 * N) :
          /\ witness[quotient[i]] = 1
          /\ witness[a_ct1[i]] + witness[a_ct2[i]] >= Q
    /\ \E i \in 1..(2 * N) :
          /\ witness[quotient[i]] = 0
          /\ witness[a_ct1[i]] + witness[a_ct2[i]] > 0

(***************************************************************************)
(* Claims about the assigned relinearization key, checked under SpecRlk.   *)
(***************************************************************************)
\* C21: for every modulus and digit base, AssignedRelinearizationKey::new
\* allocates as many (rlk0, rlk1) slots as the RelinearizationKey1 for the same
\* modulus and base has pairs, and assign succeeds.
C21_SlotsMatchDigits ==
    rlk_pc = "done" => /\ num_limbs = rlk_val_len
                       /\ rlk_result = "ok"

(***************************************************************************)
(* Claims about AssignedNTTPoly::assign, checked under SpecAssignNTT.      *)
(***************************************************************************)
\* C22: for every coefficient vector of length N, negative coefficients and
\* coefficients >= Q included, each of the N values AssignedNTTPoly::assign
\* writes lies in [0,Q) and equals the entry of the forward NTT mod Q of the
\* vector with its coefficients taken mod Q.
C22_AssignWritesNTT ==
    assign_pc = "AssignedNTTPoly" =>
        /\ assign_result = "ok"
        /\ DOMAIN assign_pw = Range(FreshWires(0, N))
        /\ \A k \in 1..N :
              /\ assign_pw[FreshWires(0, N)[k]] \in 0..(Q - 1)
              /\ assign_pw[FreshWires(0, N)[k]] =
                     NTTChip_ntt_forward(CoeffsModQ(poly_coeffs))[k]

(***************************************************************************)
(* Claims about the parameter table params_8.rs, checked under SpecNTT.    *)
(***************************************************************************)
RECURSIVE PowModQ(_, _)
PowModQ(b, k) == IF k = 0 THEN 1 ELSE (b * PowModQ(b, k - 1)) % Q

\* Some primitive 2N-th root of unity mod Q, itself an entry of the table, has
\* every entry of ROOTS among its powers.
RootsArePowersOfOne ==
    \E psi \in Range(ROOTS) :
        /\ PowModQ(psi, N) = Q - 1
        /\ \A i \in 1..N : \E k \in 0..(2 * N - 1) : ROOTS[i] = PowModQ(psi, k)

\* The conditions of C23 on the constants of the table.
TableConsistent ==
    /\ Len(ROOTS) = N /\ Len(INVROOTS) = N
    /\ (N * NINV) % Q = 1
    /\ \A i \in 1..N : (ROOTS[i] * INVROOTS[i]) % Q = 1
    /\ \A i \in 1..N : ROOTS[i] \in 0..(Q - 1) /\ INVROOTS[i] \in 0..(Q - 1)
    /\ NINV \in 0..(Q - 1)
    /\ (ROOTS[2] * ROOTS[2]) % Q = Q - 1
    /\ (ROOTS[3] * ROOTS[3]) % Q = ROOTS[2]
    /\ RootsArePowersOfOne

\* C23: the N = 8 table is consistent for Q = 3329: N * NINV = 1 mod Q,
\* ROOTS[i] * INVROOTS[i] = 1 mod Q for every i, every entry is in [0,Q),
\* ROOTS[1]^2 = -1 mod Q, ROOTS[2]^2 = ROOTS[1] mod Q, and the roots are powers
\* of one primitive 2N-th root of unity.  (Indices here are the source's plus one.)
C23_TableConsistent == Len(input) = N => TableConsistent

\* The table has been used from end to end: the forward passes with ROOTS, the
\* backward passes with INVROOTS and the scaling by NINV have taken the test
\* vector to its transform and back.
C23_Witness ==
    /\ chip_pc = "done"
    /\ input = TESTG
    /\ chip_hat = TESTGHAT
    /\ chip = TESTG

(***************************************************************************)
(* Claims about the indices of the butterfly passes, checked under SpecNTT.*)
(***************************************************************************)
\* The butterflies of pass m in a trace.
PassOf(trace, m) == {n \in DOMAIN trace : trace[n].m = m}

\* In pass m, with stride t = N/(2m): N/2 butterflies on pairs (j, j+t), every
\* accessed index below N, every index 0..N-1 accessed by exactly one
\* butterfly, and every root index in [1, N-1].
PassCoversOnce(trace, m) ==
    LET t == N \div (2 * m)
    IN  /\ Cardinality(PassOf(trace, m)) = N \div 2
        /\ \A n \in PassOf(trace, m) :
              /\ trace[n].hi = trace[n].lo + t
              /\ trace[n].lo >= 0
              /\ trace[n].hi < N
              /\ trace[n].root = m + trace[n].i
              /\ trace[n].root \in 1..(N - 1)
        /\ \A k \in 0..(N - 1) :
              Cardinality({n \in PassOf(trace, m) :
                              trace[n].lo = k \/ trace[n].hi = k}) = 1

\* Over a full transform: each table entry 1..N-1 is the root of exactly one
\* group (m, i), and entry 0 of none.
RootsUsedOnce(trace) ==
    /\ \A r \in 1..(N - 1) :
          Cardinality({<<trace[n].m, trace[n].i>> :
                          n \in {k \in DOMAIN trace : trace[k].root = r}}) = 1
    /\ \A n \in DOMAIN trace : trace[n].root # 0

\* C24: in every forward pass m in {1, 2, ..., N/2} and every backward pass,
\* with stride t = N/(2m), each index 0..N-1 belongs to exactly one butterfly
\* pair (j, j+t), every accessed index j+t is < N and the root index m+i is in
\* [1, N-1]; over one full transform each table entry 1..N-1 is used by
\* exactly one butterfly group and entry 0 never.  Each pass is examined in
\* the state it leaves, where it is the last of the trace.
C24_ButterflyIndices ==
    /\ Len(plain_trace) = plain_i * (N \div 2)
    /\ plain_i > 0 => PassCoversOnce(plain_trace, Pow2(plain_i - 1))
    /\ plain_i = LOGN => RootsUsedOnce(plain_trace)
    /\ chip_pc \in {"fw", "bw", "done"} =>
          /\ Len(chip_trace) = chip_i * (N \div 2)
          /\ chip_i > 0 =>
                PassCoversOnce(chip_trace,
                               IF chip_pc = "fw" THEN Pow2(chip_i - 1)
                               ELSE Pow2(LOGN - chip_i))
          /\ chip_i = LOGN => RootsUsedOnce(chip_trace)

\* The forward transform off-circuit and the backward transform in the chip
\* have both run all their passes, LOGN * N/2 butterflies each, and used the
\* roots 1..N-1.
C24_Witness ==
    /\ plain_i = LOGN
    /\ chip_pc = "done"
    /\ Len(plain_trace) = LOGN * (N \div 2)
    /\ Len(chip_trace) = LOGN * (N \div 2)
    /\ {chip_trace[n].root : n \in DOMAIN chip_trace} = 1..(N - 1)
    /\ chip_trace[1].m = N \div 2
    /\ plain_trace[1].m = 1

(***************************************************************************)
(* Claims about the writes of witness generation, checked under SpecArith. *)
(***************************************************************************)
\* The 2N quotient witnesses are pairwise distinct wires.
QuotientWiresDistinct == Cardinality(Range(quotient)) = 2 * N

\* No two entries the batched generator pushes set one wire to two values.
GeneratorWritesAgree ==
    \A n1, n2 \in DOMAIN out_buffer :
        out_buffer[n1][1] = out_buffer[n2][1] => out_buffer[n1][2] = out_buffer[n2][2]

\* A wire the caller's partial witness has set gets the same value from the
\* batched generator.
GeneratorAgreesWithCaller ==
    \A n \in DOMAIN out_buffer :
        out_buffer[n][1] \in DOMAIN witness => witness[out_buffer[n][1]] = out_buffer[n][2]

\* C25: during witness generation for a circuit built by add_ciphertexts no
\* wire is set to two different values: the 2N quotient witnesses are 2N
\* pairwise distinct wires, and a wire written by more than one source
\* receives the same value from each, for all operand values in [0,Q).
C25_NoConflictingWrites ==
    /\ pc \in {"register", "assign_ct1", "assign_ct2", "assign_added", "prove",
               "proved"} => QuotientWiresDistinct
    /\ gen_ran => /\ GeneratorWritesAgree
                  /\ GeneratorAgreesWithCaller

(***************************************************************************)
(* Claims about transpose, checked under SpecTranspose.                    *)
(***************************************************************************)
\* All rows have one length.
Rectangular(rows) == \A r1, r2 \in DOMAIN rows : Len(rows[r1]) = Len(rows[r2])

\* C26: for any list of rows, possibly of unequal lengths, transpose returns
\* max-row-length rows, each as long as the number of input rows, where
\* output[c][r] is input[r][c] when row r has an element c and zero otherwise;
\* for a rectangular input with at least one row and one column, transposing
\* twice returns the input.
C26_Transpose ==
    /\ transpose_pc \in {"once", "twice"} =>
          /\ \A r \in DOMAIN matrix : Len(matrix[r]) <= Len(transposed)
          /\ Len(matrix) > 0 => \E r \in DOMAIN matrix : Len(matrix[r]) = Len(transposed)
          /\ Len(matrix) = 0 => Len(transposed) = 0
          /\ \A c \in DOMAIN transposed :
                /\ Len(transposed[c]) = Len(matrix)
                /\ \A r \in DOMAIN matrix :
                      transposed[c][r] = IF c <= Len(matrix[r]) THEN matrix[r][c] ELSE 0
    /\ (/\ transpose_pc = "twice"
        /\ Rectangular(matrix)
        /\ Len(matrix) >= 1
        /\ Len(matrix[1]) >= 1) => transposed_twice = matrix

\* Rows of unequal lengths have been transposed, twice: a padding zero stands
\* beside a copied 1 in the last column, and the second transpose does not
\* give back the ragged input.
C26_Witness ==
    /\ transpose_pc = "twice"
    /\ \E r1, r2 \in DOMAIN matrix :
          /\ Len(matrix[r1]) < Len(matrix[r2])
          /\ matrix[r2][Len(matrix[r2])] = 1
          /\ transposed[Len(matrix[r2])][r2] = 1
          /\ transposed[Len(matrix[r2])][r1] = 0
          /\ transposed_twice # matrix

====
